---- MODULE Spec2Model ----
(***************************************************************************)
(* A model of stream-html-ai: the DOMManager node store and its tool       *)
(* functions, the structured-delta assembler (IncrementalCommandParser)    *)
(* with its driver (IncrementalRenderer), and the text assembler           *)
(* (IncrementalTextParser).                                                *)
(*                                                                         *)
(* JavaScript values are modelled as follows.  undefined, null and an      *)
(* absent property are the sentinel None.  A string that the code          *)
(* concatenates or scans is a sequence of symbols.  A thrown Error is a    *)
(* result record whose ok field is FALSE.                                  *)
(***************************************************************************)
EXTENDS Integers, Sequences, FiniteSets, TLC

VARIABLES
    elements,   \* DOMManager.elements: element id -> [node, parentId, children]
    nodes,      \* the DOM nodes created so far, the root element among them
    genCount,   \* number of ids DOMManager.generateId has handed out
    nOps,       \* number of tool calls made directly on the store so far
    last,       \* the last tool call made on the store and its outcome
    toolCallBuffer,      \* IncrementalCommandParser.toolCallBuffer
    completedToolCalls,  \* IncrementalCommandParser.completedToolCalls
    executedToolCalls,   \* IncrementalRenderer.executedToolCalls
    returned,   \* the list the last call returned (empty for reset and clear)
    emitted,    \* history: the calls the parser has emitted since the last reset
    applied,    \* history: the outcomes notified (onToolCall, onError) for the
                \* calls dispatched since the last clear
    nCalls,     \* number of calls made on the IncrementalRenderer so far
    lastChunk,  \* history: the chunk of the last call, if it was a processChunk
    lastCall,   \* history: the method of the IncrementalRenderer called last
    discarded,  \* history: the slot keys whose pending record a flush dropped
                \* without emitting it, since the last reset
    received,   \* history: the entries of delta.tool_calls delivered since the
                \* last reset, each with its place in the stream
    raised,     \* an exception has escaped an assembler
    textBuffer,        \* IncrementalTextParser.textBuffer
    currentCodeBlock,  \* IncrementalTextParser.currentCodeBlock (its startIndex)
    currentLanguage,   \* IncrementalTextParser.currentLanguage
    bufPos,     \* history: for each symbol of textBuffer, its position in the text
    doc,        \* the text the model is producing
    fed,        \* number of symbols of doc delivered so far
    textCalls,  \* history: the calls made on the text parser
    textOut,    \* the list the last parseTextChunk or flush returned
    textLog,    \* history: every instruction the text parser has returned
    executedCommands,  \* IncrementalTextRenderer.executedCommands
    called,     \* the tool calls handed to the last executeToolCall(s) of the Renderer
    outcome,    \* what that call returned or threw; for the StreamProcessor, the
                \* results it has reported through onToolCall
    pendingToolCalls,  \* StreamProcessor.pendingToolCalls
    debounceTimer,     \* StreamProcessor.debounceTimer is armed
    options,    \* StreamProcessor.options: batchSize and debounceMs
    queued,     \* history: the tool calls processChunk has put on the queue of the
                \* StreamProcessor since the last reset, in arrival order
    handedOver  \* history: the tool calls handed to executeToolCalls since then

storeVars == <<elements, nodes, genCount, nOps, last>>

deltaVars == <<toolCallBuffer, completedToolCalls, executedToolCalls, returned,
               emitted, applied, nCalls, lastChunk, lastCall, discarded, received>>

textVars == <<textBuffer, currentCodeBlock, currentLanguage, bufPos, doc, fed,
              textCalls, textOut, textLog, executedCommands>>

streamVars == <<pendingToolCalls, debounceTimer, options, queued, handedOver>>

dispatchVars == <<called, outcome, streamVars>>

vars == <<storeVars, deltaVars, raised, textVars, dispatchVars>>

----------------------------------------------------------------------------
(* Values *)

None == "<none>"
Root == "root"

\* undefined / null where the code expects a string of text
NoText == <<None>>

\* Ids a caller supplies in props.id, elementId and parentId.
Ids == {"a", "b", "c"}

\* Ids generateId returns, in the order it returns them.
GenNames == <<"g1", "g2", "g3">>

\* At most this many creations without an explicit id.
MaxGen == 1

\* At most this many tool calls on the store.
MaxOps == 3

\* At most this many symbols of text content per node.
MaxText == 2

GenIds == {GenNames[i] : i \in 1..(IF MaxGen < Len(GenNames) THEN MaxGen ELSE Len(GenNames))}
AllIds == Ids \cup GenIds

TagNames == {"div"}
Texts == {<<>>, <<"x">>}

----------------------------------------------------------------------------
(* JavaScript Set (insertion-ordered, no duplicates) as a sequence *)

SeqToSet(s) == {s[i] : i \in 1..Len(s)}

SetAdd(s, x) == IF x \in SeqToSet(s) THEN s ELSE Append(s, x)

SetDelete(s, x) == SelectSeq(s, LAMBDA y : y # x)

\* Map.set(key, value)
MapSet(m, k, v) == [x \in DOMAIN m \cup {k} |-> IF x = k THEN v ELSE m[x]]

\* Map.delete(key)
MapDelete(m, k) == [x \in DOMAIN m \ {k} |-> m[x]]

----------------------------------------------------------------------------
(* The rendered document                                                   *)
(*                                                                         *)
(* A DOM node is named by the order of its creation; the root element is   *)
(* node 0.  A node is [parentNode, tagName, text, childNodes, attributes,  *)
(* style]: text is the text node that an assignment to textContent leaves  *)
(* as the only child, childNodes are the element children appended after   *)
(* it, in order, attributes maps the names of the attributes set on the    *)
(* node to their values and style maps the names of the properties set on  *)
(* node.style to their values.                                             *)

RootNode == 0

\* parentNode === null
Detached == 0 - 1

\* A name document.createElement rejects with an InvalidCharacterError.
InvalidTagNames == {"<p>"}

InitDocument ==
    [n \in {RootNode} |-> [parentNode |-> Detached, tagName |-> "div",
                           text |-> << >>, childNodes |-> << >>,
                           attributes |-> << >>, style |-> << >>]]

\* document.createElement(tagName): the new node is NextNode(dom)
NextNode(dom) == Cardinality(DOMAIN dom)

DocumentCreateElement(dom, tagName) ==
    [n \in DOMAIN dom \cup {NextNode(dom)} |->
        IF n \in DOMAIN dom THEN dom[n]
        ELSE [parentNode |-> Detached, tagName |-> tagName,
              text |-> << >>, childNodes |-> << >>,
              attributes |-> << >>, style |-> << >>]]

\* node.parentNode.removeChild(node), guarded by `if (node.parentNode)`
RemoveChild(dom, n) ==
    IF dom[n].parentNode = Detached THEN dom
    ELSE [dom EXCEPT ![dom[n].parentNode].childNodes = SelectSeq(@, LAMBDA k : k # n),
                     ![n].parentNode = Detached]

\* parentNode.appendChild(node)
AppendChild(dom, p, n) ==
    LET d1 == RemoveChild(dom, n)
    IN  [d1 EXCEPT ![p].childNodes = Append(@, n), ![n].parentNode = p]

RECURSIVE TextContent(_, _)
RECURSIVE TextOfChildren(_, _, _)

\* the getter node.textContent: the text of all descendants, in tree order
TextContent(dom, n) == dom[n].text \o TextOfChildren(dom, dom[n].childNodes, 1)

TextOfChildren(dom, kids, i) ==
    IF i > Len(kids) THEN << >>
    ELSE TextContent(dom, kids[i]) \o TextOfChildren(dom, kids, i + 1)

\* the setter node.textContent = text: every child is removed from the
\* node, and the text becomes its only child
AssignTextContent(dom, n, text) ==
    [k \in DOMAIN dom |->
        IF k = n THEN [dom[k] EXCEPT !.text = text, !.childNodes = << >>]
        ELSE IF dom[k].parentNode = n THEN [dom[k] EXCEPT !.parentNode = Detached]
        ELSE dom[k]]

----------------------------------------------------------------------------
(* DOMManager *)

\* The call stack is deep enough for every tree of live nodes; a recursion
\* deeper than the number of live nodes revisits a node and never returns,
\* which ends in a RangeError (overflow).
StackDepth(els) == Cardinality(DOMAIN els) + 1

\* getParentNode(parentId)
GetParentNode(els, parentId) ==
    IF parentId = Root \/ parentId \notin DOMAIN els THEN RootNode
    ELSE els[parentId].node

\* setProps(node, props), props = {textContent}
SetProps(dom, n, propsText) ==
    IF propsText = NoText THEN dom ELSE AssignTextContent(dom, n, propsText)

\* removeElement on an id that is not live, as an Error
AbsentThrows(els, dom) == [els |-> els, dom |-> dom, overflow |-> TRUE]

\* if (!elementInfo) return
Absent(els, dom) == [els |-> els, dom |-> dom, overflow |-> FALSE]

RECURSIVE RemoveFrom(_, _, _, _)
RECURSIVE RemoveChildren(_, _, _, _, _)

\* removeElement(elementId), with the call-stack budget left
RemoveFrom(els, dom, elementId, fuel) ==
    IF elementId \notin DOMAIN els THEN Absent(els, dom)
    ELSE IF fuel = 0 THEN [els |-> els, dom |-> dom, overflow |-> TRUE]
    ELSE LET elementInfo == els[elementId]
             kids == RemoveChildren(els, dom, elementInfo.children, 1, fuel - 1)
         IN  IF kids.overflow THEN kids
             ELSE LET e1 == kids.els
                      e2 == IF elementInfo.parentId # Root /\ elementInfo.parentId \in DOMAIN e1
                            THEN [e1 EXCEPT ![elementInfo.parentId].children = SetDelete(@, elementId)]
                            ELSE e1
                  IN  [els |-> MapDelete(e2, elementId),
                       dom |-> RemoveChild(kids.dom, elementInfo.node),
                       overflow |-> FALSE]

\* the loop `for (const childId of elementInfo.children) this.removeElement(childId)`
RemoveChildren(els, dom, children, i, fuel) ==
    IF i > Len(children) THEN [els |-> els, dom |-> dom, overflow |-> FALSE]
    ELSE LET r == RemoveFrom(els, dom, children[i], fuel)
         IN  IF r.overflow THEN r ELSE RemoveChildren(r.els, r.dom, children, i + 1, fuel)

RemoveElement(els, dom, elementId) == RemoveFrom(els, dom, elementId, StackDepth(els))

\* generateId(): the n-th generated id
GenerateId(n) == GenNames[n + 1]

\* the rest of createElement once the id is free: the node is created,
\* given its props, appended to its parent node and recorded
Install(els, dom, gen, elementId, parentId, tagName, propsText) ==
    IF tagName \in InvalidTagNames
    THEN [els |-> els, dom |-> dom, gen |-> gen, ok |-> FALSE,
          out |-> "InvalidCharacterError"]
    ELSE LET n == NextNode(dom)
             d1 == SetProps(DocumentCreateElement(dom, tagName), n, propsText)
             d2 == AppendChild(d1, GetParentNode(els, parentId), n)
             elementInfo == [node |-> n, parentId |-> parentId, children |-> <<>>]
             e1 == MapSet(els, elementId, elementInfo)
             e2 == IF parentId # Root /\ parentId \in DOMAIN e1
                   THEN [e1 EXCEPT ![parentId].children = SetAdd(@, elementId)]
                   ELSE e1
         IN  [els |-> e2, dom |-> d2, gen |-> gen, ok |-> TRUE, out |-> elementId]

\* createElement(parentId, tagName, props), props = {id, textContent}
CreateElement(els, dom, gen, parentId, tagName, propsId, propsText) ==
    LET elementId == IF propsId # None THEN propsId ELSE GenerateId(gen)
        gen1 == IF propsId # None THEN gen ELSE gen + 1
        rem == IF elementId \in DOMAIN els THEN RemoveElement(els, dom, elementId)
               ELSE [els |-> els, dom |-> dom, overflow |-> FALSE]
    IN  IF rem.overflow
        THEN [els |-> rem.els, dom |-> rem.dom, gen |-> gen1, ok |-> FALSE,
              out |-> "RangeError"]
        ELSE Install(rem.els, rem.dom, gen1, elementId, parentId, tagName, propsText)

\* a call on an id that is not live, let through as if it had done its work
Ignored(els, dom) == [els |-> els, dom |-> dom, ok |-> TRUE, out |-> None]

\* throw new Error(`Element with id "${elementId}" not found`)
NotFound(els, dom) == [els |-> els, dom |-> dom, ok |-> FALSE, out |-> "NotFound"]

\* updateElement(elementId, props), props = {id, textContent}
UpdateElement(els, dom, elementId, propsId, propsText) ==
    IF elementId \notin DOMAIN els THEN NotFound(els, dom)
    ELSE LET elementInfo == els[elementId]
             d1 == SetProps(dom, elementInfo.node, propsText)
         IN  IF propsId # None /\ propsId # elementId
             THEN LET e1 == MapDelete(MapSet(els, propsId, elementInfo), elementId)
                      e2 == IF elementInfo.parentId # Root /\ elementInfo.parentId \in DOMAIN e1
                            THEN [e1 EXCEPT ![elementInfo.parentId].children =
                                                 SetAdd(SetDelete(@, elementId), propsId)]
                            ELSE e1
                  IN  [els |-> e2, dom |-> d1, ok |-> TRUE, out |-> elementId]
             ELSE [els |-> els, dom |-> d1, ok |-> TRUE, out |-> elementId]

\* setText(elementId, text)
SetTextContent(els, dom, elementId, text) ==
    IF elementId \notin DOMAIN els THEN NotFound(els, dom)
    ELSE [els |-> els, dom |-> AssignTextContent(dom, els[elementId].node, text),
          ok |-> TRUE, out |-> elementId]

\* appendText(elementId, text): node.textContent += text
AppendTextContent(els, dom, elementId, text) ==
    IF elementId \notin DOMAIN els THEN NotFound(els, dom)
    ELSE LET n == els[elementId].node
         IN  [els |-> els, dom |-> AssignTextContent(dom, n, TextContent(dom, n) \o text),
              ok |-> TRUE, out |-> elementId]

\* the loop of clear() over the entries of elements: the node of every
\* live entry is removed from its parent node
ClearDocument(els, dom) ==
    LET live == {els[id].node : id \in DOMAIN els}
    IN  [k \in DOMAIN dom |->
            [dom[k] EXCEPT !.parentNode = IF k \in live THEN Detached ELSE @,
                           !.childNodes = SelectSeq(@, LAMBDA c : c \notin live)]]

\* clear(): elements.clear()
ClearElements == << >>

----------------------------------------------------------------------------
(* tools.js: the tool functions bound to the DOMManager *)

\* a parentId that is not live, handed on as it is
NoFallback(els, parentId) == parentId

\* if (parentId && parentId !== 'root') { if (!getElement(parentId)) parentId = 'root' }
Fallback(els, parentId) ==
    IF parentId # "" /\ parentId # Root /\ parentId \notin DOMAIN els THEN Root ELSE parentId

\* h(parentId, tagName, props)
ToolH(els, dom, gen, parentId, tagName, propsId, propsText) ==
    IF tagName = None \/ tagName = ""
    THEN [els |-> els, dom |-> dom, gen |-> gen, ok |-> FALSE, out |-> "tagName"]
    ELSE LET p1 == IF parentId = "null" \/ parentId = None THEN Root ELSE parentId
             p2 == Fallback(els, p1)
         IN  CreateElement(els, dom, gen, IF p2 = "" THEN Root ELSE p2, tagName,
                           propsId, propsText)

\* the guard `!elementId || typeof elementId !== 'string'` of the other tools
BadElementId(elementId) == elementId = None \/ elementId = ""

\* String(text || '')
TextArg(text) == IF text = NoText THEN <<>> ELSE text

\* the Error the other tools throw on a bad elementId
BadId(els, dom) == [els |-> els, dom |-> dom, ok |-> FALSE, out |-> "elementId"]

ToolUpdateElement(els, dom, elementId, propsId, propsText) ==
    IF BadElementId(elementId) THEN BadId(els, dom)
    ELSE UpdateElement(els, dom, elementId, propsId, propsText)

ToolSetText(els, dom, elementId, text) ==
    IF BadElementId(elementId) THEN BadId(els, dom)
    ELSE SetTextContent(els, dom, elementId, TextArg(text))

ToolAppendText(els, dom, elementId, text) ==
    IF BadElementId(elementId) THEN BadId(els, dom)
    ELSE AppendTextContent(els, dom, elementId, TextArg(text))

ToolRemoveElement(els, dom, elementId) ==
    IF BadElementId(elementId) THEN BadId(els, dom)
    ELSE LET r == RemoveElement(els, dom, elementId)
         IN  [els |-> r.els, dom |-> r.dom, ok |-> ~r.overflow,
              out |-> IF r.overflow THEN "RangeError" ELSE elementId]

----------------------------------------------------------------------------
(* JSON text and JSON.parse                                                *)
(*                                                                         *)
(* A text is a sequence of symbols.  Punctuation, white space, the         *)
(* backtick, digits and letters are single characters; a quoted string is  *)
(* one symbol, Q(k) for the string whose content is k.                     *)

NL == "\n"
WhiteSpace == {" ", NL}
Digits == {"1"}
LowerCase == {"j", "s", "o", "n", "r", "e", "d", "u", "l", "a", "v", "c", "i", "p", "t"}
UpperCase == {"J", "S"}
Letters == LowerCase \cup UpperCase

\* the lexeme of the quoted string with content k
Q(k) == "\"" \o k \o "\""

StrContents == {"", "<p>", "name", "arguments", "parentId", "tagName", "props", "id",
                "elementId", "text", "h", "setText", "appendText",
                "updateElement", "removeElement", "nope", "div", "root",
                "a", "b", "c", "x"}
StrTokens == {Q(k) : k \in StrContents}
Unquote == [t \in StrTokens |-> CHOOSE k \in StrContents : Q(k) = t]

NullWord == <<"n", "u", "l", "l">>

JNull == [t |-> "null", s |-> "", m |-> << >>]
JStr(c) == [t |-> "string", s |-> c, m |-> << >>]
JNum(d) == [t |-> "number", s |-> d, m |-> << >>]
JObj(members) == [t |-> "object", s |-> "", m |-> members]
JArr(items) == [t |-> "array", s |-> "", m |-> items]

\* a SyntaxError of JSON.parse
JFail == [ok |-> FALSE, v |-> JNull, next |-> 0]
JOk(v, next) == [ok |-> TRUE, v |-> v, next |-> next]

RECURSIVE SkipWS(_, _)
SkipWS(s, i) == IF i <= Len(s) /\ s[i] \in WhiteSpace THEN SkipWS(s, i + 1) ELSE i

RECURSIVE SkipDigits(_, _)
SkipDigits(s, i) == IF i <= Len(s) /\ s[i] \in Digits THEN SkipDigits(s, i + 1) ELSE i

RECURSIVE ParseValue(_, _)
RECURSIVE ParseMembers(_, _, _)
RECURSIVE ParseItems(_, _, _)

\* one JSON value starting at s[i]
ParseValue(s, i) ==
    IF i > Len(s) THEN JFail
    ELSE IF s[i] = "{"
    THEN LET j == SkipWS(s, i + 1)
         IN  IF j <= Len(s) /\ s[j] = "}" THEN JOk(JObj(<< >>), j + 1)
             ELSE ParseMembers(s, j, << >>)
    ELSE IF s[i] = "["
    THEN LET j == SkipWS(s, i + 1)
         IN  IF j <= Len(s) /\ s[j] = "]" THEN JOk(JArr(<< >>), j + 1)
             ELSE ParseItems(s, j, << >>)
    ELSE IF s[i] \in StrTokens THEN JOk(JStr(Unquote[s[i]]), i + 1)
    ELSE IF s[i] \in Digits THEN JOk(JNum(s[i]), SkipDigits(s, i))
    ELSE IF i + 3 <= Len(s) /\ SubSeq(s, i, i + 3) = NullWord THEN JOk(JNull, i + 4)
    ELSE JFail

\* the members of an object from the key at s[i], up to the closing brace
ParseMembers(s, i, acc) ==
    IF i > Len(s) \/ s[i] \notin StrTokens THEN JFail
    ELSE LET c == SkipWS(s, i + 1)
         IN  IF c > Len(s) \/ s[c] # ":" THEN JFail
             ELSE LET r == ParseValue(s, SkipWS(s, c + 1))
                  IN  IF ~r.ok THEN JFail
                      ELSE LET acc2 == Append(acc, [k |-> Unquote[s[i]], v |-> r.v])
                               n == SkipWS(s, r.next)
                           IN  IF n > Len(s) THEN JFail
                               ELSE IF s[n] = "}" THEN JOk(JObj(acc2), n + 1)
                               ELSE IF s[n] = "," THEN ParseMembers(s, SkipWS(s, n + 1), acc2)
                               ELSE JFail

\* the items of an array from the value at s[i], up to the closing bracket
ParseItems(s, i, acc) ==
    LET r == ParseValue(s, i)
    IN  IF ~r.ok THEN JFail
        ELSE LET acc2 == Append(acc, [k |-> "", v |-> r.v])
                 n == SkipWS(s, r.next)
             IN  IF n > Len(s) THEN JFail
                 ELSE IF s[n] = "]" THEN JOk(JArr(acc2), n + 1)
                 ELSE IF s[n] = "," THEN ParseItems(s, SkipWS(s, n + 1), acc2)
                 ELSE JFail

\* JSON.parse(s): ok is FALSE where it throws a SyntaxError
JSONParse(s) ==
    LET r == ParseValue(s, SkipWS(s, 1))
    IN  IF r.ok /\ SkipWS(s, r.next) > Len(s) THEN [ok |-> TRUE, v |-> r.v]
        ELSE [ok |-> FALSE, v |-> JNull]

\* a text without its last symbol
Truncated(payload) == SubSeq(payload, 1, Len(payload) - 1)

\* String.prototype.trim()
RECURSIVE TrimEnd(_)
TrimEnd(s) == IF Len(s) > 0 /\ s[Len(s)] \in WhiteSpace THEN TrimEnd(SubSeq(s, 1, Len(s) - 1)) ELSE s

Trim(s) == LET i == SkipWS(s, 1) IN TrimEnd(SubSeq(s, i, Len(s)))

\* value.key of a parsed value: None (undefined) where the property is absent
HasKey(v, key) == v.t = "object" /\ \E i \in 1..Len(v.m) : v.m[i].k = key

GetKey(v, key) ==
    LET last_i == CHOOSE i \in 1..Len(v.m) :
                      v.m[i].k = key /\ \A j \in (i + 1)..Len(v.m) : v.m[j].k # key
    IN  v.m[last_i].v

\* the truthiness of a parsed value
Truthy(v) == ~(v.t \in {"null", "undefined"} \/ (v.t = "string" /\ v.s = ""))

----------------------------------------------------------------------------
(* ToolCallHandler.executeToolCall: the dispatcher *)

JUndefined == [t |-> "undefined", s |-> "", m |-> << >>]

\* parsedArgs.key
Prop(v, key) == IF HasKey(v, key) THEN GetKey(v, key) ELSE JUndefined

\* a truthy value that is not a string, where the store expects an id
NotAString == "<not a string>"

\* a parsed value used as an id (parentId, props.id)
IdArg(v) ==
    IF v.t = "string" THEN v.s
    ELSE IF v.t \in {"null", "undefined"} THEN None
    ELSE NotAString

\* a parsed value that the tools require to be a string (tagName, elementId)
StringArg(v) == IF v.t = "string" THEN v.s ELSE None

\* String(v)
StringOf(v) ==
    IF v.t = "string" THEN (IF v.s = "" THEN <<>> ELSE <<v.s>>)
    ELSE IF v.t = "number" THEN <<v.s>>
    ELSE <<"[object]">>

\* parsedArgs.props || {}
PropsOf(v) == IF Truthy(Prop(v, "props")) THEN Prop(v, "props") ELSE JObj(<< >>)

\* props.id where the code tests its truthiness
PropsIdArg(props) == IF Truthy(Prop(props, "id")) THEN IdArg(Prop(props, "id")) ELSE None

\* props.textContent
PropsTextArg(props) ==
    IF Prop(props, "textContent").t \in {"null", "undefined"} THEN NoText
    ELSE StringOf(Prop(props, "textContent"))

\* parsedArgs.text || ''
TextParam(v) == IF Truthy(Prop(v, "text")) THEN StringOf(Prop(v, "text")) ELSE <<>>

ToolNames == {"h", "updateElement", "setText", "appendText", "removeElement"}

\* boundTools is an object literal: a lookup by name also finds what it inherits
\* from Object.prototype.  Of those, toString returns when called without a
\* receiver and hasOwnProperty throws a TypeError.
InheritedNames == {"toString", "hasOwnProperty"}

\* !name || !this.boundTools[name]
IsUnknownTool(name) == name = None \/ name = "" \/ name \notin ToolNames \cup InheritedNames

\* toolFn(...(Array.isArray(parsedArgs) ? parsedArgs : [parsedArgs])) for an inherited name
CallInherited(els, dom, gen, name) ==
    IF name = "toString"
    THEN [els |-> els, dom |-> dom, gen |-> gen, ok |-> TRUE, out |-> "[object Undefined]"]
    ELSE [els |-> els, dom |-> dom, gen |-> gen, ok |-> FALSE, out |-> "TypeError"]

Thrown(els, dom, gen, e) ==
    [els |-> els, dom |-> dom, gen |-> gen, ok |-> FALSE, out |-> e]

WithGen(r, gen) ==
    [els |-> r.els, dom |-> r.dom, gen |-> gen, ok |-> r.ok, out |-> r.out]

\* the tool function called with the fields of parsedArgs
CallTool(els, dom, gen, name, parsedArgs) ==
    IF name \in InheritedNames THEN CallInherited(els, dom, gen, name)
    ELSE IF parsedArgs.t = "null" THEN Thrown(els, dom, gen, "TypeError")
    ELSE IF name = "h"
    THEN ToolH(els, dom, gen, IdArg(Prop(parsedArgs, "parentId")),
               StringArg(Prop(parsedArgs, "tagName")),
               PropsIdArg(PropsOf(parsedArgs)), PropsTextArg(PropsOf(parsedArgs)))
    ELSE IF name = "updateElement"
    THEN WithGen(ToolUpdateElement(els, dom, StringArg(Prop(parsedArgs, "elementId")),
                                   PropsIdArg(PropsOf(parsedArgs)),
                                   PropsTextArg(PropsOf(parsedArgs))), gen)
    ELSE IF name = "setText"
    THEN WithGen(ToolSetText(els, dom, StringArg(Prop(parsedArgs, "elementId")),
                             TextParam(parsedArgs)), gen)
    ELSE IF name = "appendText"
    THEN WithGen(ToolAppendText(els, dom, StringArg(Prop(parsedArgs, "elementId")),
                                TextParam(parsedArgs)), gen)
    ELSE WithGen(ToolRemoveElement(els, dom, StringArg(Prop(parsedArgs, "elementId"))), gen)

\* the try block around JSON.parse(args): p is the outcome of the parse
WithParsedArgs(els, dom, gen, name, p) ==
    IF ~p.ok THEN Thrown(els, dom, gen, "InvalidJSON")
    ELSE CallTool(els, dom, gen, name, p.v)

\* executeToolCall({name, arguments}), arguments a string
ExecuteToolCall(els, dom, gen, name, args) ==
    IF IsUnknownTool(name)
    THEN Thrown(els, dom, gen, "UnknownTool")
    ELSE WithParsedArgs(els, dom, gen, name, JSONParse(args))

\* one entry of the list executeToolCalls returns
Envelope(success, result, error, toolCall) ==
    [success |-> success, result |-> result, error |-> error, toolCall |-> toolCall]

\* catch (error) { results.push({ success: false, error: error.message, toolCall }) }
CaughtInBatch(acc, r, toolCall) ==
    [acc EXCEPT !.els = r.els, !.dom = r.dom, !.gen = r.gen,
                !.results = Append(@, Envelope(FALSE, None, r.out, toolCall))]

\* ToolCallHandler.executeToolCalls(toolCalls): the loop from the k-th call
RECURSIVE ExecuteToolCalls(_, _, _)
ExecuteToolCalls(acc, toolCalls, k) ==
    IF k > Len(toolCalls) THEN acc
    ELSE LET toolCall == toolCalls[k]
             r == ExecuteToolCall(acc.els, acc.dom, acc.gen, toolCall.name, toolCall.arguments)
         IN  ExecuteToolCalls(
                 IF r.ok
                 THEN [acc EXCEPT !.els = r.els, !.dom = r.dom, !.gen = r.gen,
                                  !.results = Append(@, Envelope(TRUE, r.out, None, toolCall))]
                 ELSE CaughtInBatch(acc, r, toolCall),
                 toolCalls, k + 1)

\* what a call of the Renderer returned (result, results) or threw (error)
Outcome(op, threw, result, error, results) ==
    [op |-> op, threw |-> threw, result |-> result, error |-> error, results |-> results]

NoOutcome == Outcome("none", FALSE, None, None, << >>)

----------------------------------------------------------------------------
(* IncrementalCommandParser: the structured-delta assembler                *)
(*                                                                         *)
(* The slot key `index_${index}` is modelled by the index.  toolCallBuffer *)
(* is a Map in insertion order: a sequence of records with distinct index. *)
(* A fragment is [index, id, name, arguments]: name and id are None where  *)
(* the fragment carries none, arguments is the empty string where it       *)
(* carries none.  The fields via, opened and at of a record are history:   *)
(* the path that emitted the call, the chunk and position of the fragment  *)
(* that opened the slot, and of the fragment that completed it.            *)

\* chunk.index absent
NoIndex == 0 - 1

TempId(index) == "temp_" \o ToString(index)

\* `temp_${Date.now()}`
TempNow == "temp_now"

BufHas(buf, key) == \E i \in 1..Len(buf) : buf[i].index = key
BufAt(buf, key) == CHOOSE i \in 1..Len(buf) : buf[i].index = key
BufDelete(buf, key) == SelectSeq(buf, LAMBDA r : r.index # key)

\* a parse step that lets the exception of JSON.parse escape
Rethrown(st) == [st EXCEPT !.threw = TRUE]

\* an empty catch block: the exception of JSON.parse stops here
Caught(st) == st

\* a completeness test that takes any payload for complete
ParsesOrPending(arguments) == TRUE

\* JSON.parse(arguments) does not throw
Parses(arguments) == JSONParse(arguments).ok

\* a skip test that never skips
NeverRetired(st, key) == FALSE

\* completedToolCalls.has(key)
Retired(st, key) == key \in st.done

Completed(id, name, arguments, index, via, opened, at) ==
    [id |-> id, name |-> name, arguments |-> arguments, index |-> index,
     via |-> via, opened |-> opened, at |-> at]

\* a completion that retires the slot and leaves its record in toolCallBuffer
CompleteKeepingRecord(st, call) ==
    [st EXCEPT !.done = @ \cup {call.index}, !.out = Append(@, call)]

\* completedToolCalls.add(key); toolCallBuffer.delete(key); completedToolCalls.push(call)
Complete(st, call) ==
    [st EXCEPT !.buf = BufDelete(@, call.index),
               !.done = @ \cup {call.index},
               !.out = Append(@, call)]

\* one entry of choice.delta.tool_calls
DeltaStep(st, d, at) ==
    IF Retired(st, d.index) THEN st
    ELSE LET buf1 == IF BufHas(st.buf, d.index) THEN st.buf
                     ELSE Append(st.buf, [id |-> d.id, name |-> "", arguments |-> <<>>,
                                          index |-> d.index, opened |-> at])
             i == BufAt(buf1, d.index)
             toolCall == [buf1[i] EXCEPT
                            !.id = IF d.id # None /\ @ = None THEN d.id ELSE @,
                            !.name = IF d.name # None /\ d.name # "" THEN d.name ELSE @,
                            !.arguments = @ \o d.arguments]
             st2 == [st EXCEPT !.buf = [buf1 EXCEPT ![i] = toolCall]]
         IN  IF toolCall.name # "" /\ toolCall.arguments # <<>> /\ Trim(toolCall.arguments) # <<>>
             THEN IF Parses(toolCall.arguments)
                  THEN Complete(st2, Completed(IF toolCall.id # None THEN toolCall.id
                                                ELSE TempId(d.index),
                                               toolCall.name, toolCall.arguments,
                                               toolCall.index, "delta", toolCall.opened, at))
                  ELSE Caught(st2)
             ELSE st2

\* one entry of choice.message.tool_calls when finish_reason is 'tool_calls'
FinishStep(st, tc, at) ==
    IF Retired(st, tc.index) THEN st
    ELSE IF tc.name # None /\ tc.name # "" /\ tc.arguments # <<>>
    THEN IF Parses(tc.arguments)
         THEN Complete(st, Completed(tc.id, tc.name, tc.arguments, tc.index, "finish", at, at))
         ELSE Caught(
              IF BufHas(st.buf, tc.index)
              THEN LET b == st.buf[BufAt(st.buf, tc.index)]
                   IN  IF b.name # "" /\ b.arguments # <<>>
                       THEN IF Parses(b.arguments)
                            THEN Complete(st, Completed(IF b.id # None THEN b.id
                                                         ELSE IF tc.id # None THEN tc.id
                                                         ELSE TempId(tc.index),
                                                        b.name, b.arguments, b.index,
                                                        "buffered", b.opened, at))
                            ELSE Caught(st)
                       ELSE st
              ELSE st)
    ELSE st

\* one entry of chunk.tool_calls, or the chunk itself where it has name and arguments
GenericStep(st, tc, via, at) ==
    IF tc.name # None /\ tc.name # "" /\ tc.arguments # <<>>
    THEN IF Parses(tc.arguments)
         THEN [st EXCEPT !.out = Append(@,
                  Completed(IF tc.id # None THEN tc.id ELSE TempNow, tc.name, tc.arguments,
                            IF tc.index = NoIndex THEN 0 ELSE tc.index, via, at, at))]
         ELSE Caught(st)
    ELSE st

RECURSIVE DeltaLoop(_, _, _, _)
DeltaLoop(st, calls, chunkNo, k) ==
    IF k > Len(calls) \/ st.threw THEN st
    ELSE DeltaLoop(DeltaStep(st, calls[k], <<chunkNo, k>>), calls, chunkNo, k + 1)

RECURSIVE FinishLoop(_, _, _, _, _)
FinishLoop(st, calls, chunkNo, base, k) ==
    IF k > Len(calls) \/ st.threw THEN st
    ELSE FinishLoop(FinishStep(st, calls[k], <<chunkNo, base + k>>), calls, chunkNo, base, k + 1)

RECURSIVE GenericLoop(_, _, _, _, _)
GenericLoop(st, calls, chunkNo, base, k) ==
    IF k > Len(calls) \/ st.threw THEN st
    ELSE GenericLoop(GenericStep(st, calls[k], "generic", <<chunkNo, base + k>>),
                     calls, chunkNo, base, k + 1)

\* A chunk: delta = choices[0].delta.tool_calls, finish = choices[0].message.tool_calls
\* with finish_reason 'tool_calls', tool_calls = chunk.tool_calls, single = the chunk's
\* own {id, name, arguments, index}; each is a list, empty where the chunk has none.
Chunk(delta, finish, tool_calls, single) ==
    [delta |-> delta, finish |-> finish, tool_calls |-> tool_calls, single |-> single]

\* no chunk: the call was not a processChunk
NoChunk == Chunk(<<>>, <<>>, <<>>, <<>>)

\* parseChunk(chunk)
ParseChunk(buf, done, chunk, chunkNo) ==
    LET st0 == [buf |-> buf, done |-> done, out |-> <<>>, threw |-> FALSE]
        st1 == DeltaLoop(st0, chunk.delta, chunkNo, 1)
        n1 == Len(chunk.delta)
        st2 == FinishLoop(st1, chunk.finish, chunkNo, n1, 1)
        n2 == n1 + Len(chunk.finish)
        st3 == GenericLoop(st2, chunk.tool_calls, chunkNo, n2, 1)
        n3 == n2 + Len(chunk.tool_calls)
    IN  IF st3.threw \/ chunk.single = <<>> THEN st3
        ELSE GenericStep(st3, chunk.single[1], "single", <<chunkNo, n3 + 1>>)

\* one entry of toolCallBuffer in flush()
FlushStep(st, toolCall, at) ==
    IF Retired(st, toolCall.index) THEN st
    ELSE IF toolCall.name # "" /\ toolCall.arguments # <<>> /\ Trim(toolCall.arguments) # <<>>
    THEN IF Parses(toolCall.arguments)
         THEN [st EXCEPT !.out = Append(@,
                  Completed(IF toolCall.id # None THEN toolCall.id ELSE TempId(toolCall.index),
                            toolCall.name, toolCall.arguments, toolCall.index,
                            "flush", toolCall.opened, at)),
                         !.done = @ \cup {toolCall.index}]
         ELSE Caught(st)
    ELSE st

RECURSIVE FlushLoop(_, _, _, _)
FlushLoop(st, entries, chunkNo, k) ==
    IF k > Len(entries) \/ st.threw THEN st
    ELSE FlushLoop(FlushStep(st, entries[k], <<chunkNo, k>>), entries, chunkNo, k + 1)

\* a flush that leaves toolCallBuffer as it is
FlushKeepingBuffer(buf, done, chunkNo) ==
    FlushLoop([buf |-> buf, done |-> done, out |-> <<>>, threw |-> FALSE], buf, chunkNo, 1)

\* IncrementalCommandParser.flush()
ParserFlush(buf, done, chunkNo) ==
    LET st == FlushLoop([buf |-> buf, done |-> done, out |-> <<>>, threw |-> FALSE],
                        buf, chunkNo, 1)
    IN  IF st.threw THEN st ELSE [st EXCEPT !.buf = <<>>]

----------------------------------------------------------------------------
(* The store driven tool call by tool call *)

\* the arguments of a call: those a tool does not take are None
NoArgs == [target |-> None, parent |-> None, tagName |-> None, newId |-> None,
           text |-> NoText]

Call(op, a, r) ==
    [op |-> op, target |-> a.target, parent |-> a.parent, tagName |-> a.tagName,
     newId |-> a.newId, text |-> a.text, ok |-> r.ok, out |-> r.out]

NoCall == Call("none", NoArgs, [ok |-> TRUE, out |-> None])


----------------------------------------------------------------------------
(* IncrementalTextParser: the text assembler                               *)
(*                                                                         *)
(* Positions are those of JavaScript: the first symbol of a string is at   *)
(* index 0.  An instruction is [name, arguments]; its fields item, block,  *)
(* call and via are history: its place in its block, the position in the   *)
(* text of the fence that opens its block, and the call that returned it.  *)

\* the backtick character
Backtick == "<backtick>"
Fence == <<Backtick, Backtick, Backtick>>

\* \w of the regular expressions
WordChars == Letters \cup Digits

\* String.prototype.toLowerCase()
ToLowerCase(s) ==
    [i \in 1..Len(s) |-> IF s[i] = "J" THEN "j" ELSE IF s[i] = "S" THEN "s" ELSE s[i]]

Clamp(n, len) == IF n < 0 THEN 0 ELSE IF n > len THEN len ELSE n

\* s.substring(a, b)
Substring(s, a, b) ==
    LET x == Clamp(a, Len(s))
        y == Clamp(b, Len(s))
    IN  IF x <= y THEN SubSeq(s, x + 1, y) ELSE SubSeq(s, y + 1, x)

\* s.indexOf(pattern)
IndexOf(s, pattern) ==
    LET hits == {i \in 0..(Len(s) - Len(pattern)) : SubSeq(s, i + 1, i + Len(pattern)) = pattern}
    IN  IF hits = {} THEN 0 - 1 ELSE CHOOSE i \in hits : \A j \in hits : i <= j

\* the length of the run of word characters at the start of s
RECURSIVE WordRun(_, _)
WordRun(s, n) == IF n < Len(s) /\ s[n + 1] \in WordChars THEN WordRun(s, n + 1) ELSE n

\* s.match(/^(\w+)?\n?/): the language and the length of the match
LanguageMatch(s) ==
    LET n == WordRun(s, 0)
    IN  [language |-> ToLowerCase(SubSeq(s, 1, n)),
         length |-> IF n < Len(s) /\ s[n + 1] = NL THEN n + 1 ELSE n]

\* s.split('\n')
RECURSIVE Split(_, _, _)
Split(s, k, line) ==
    IF k > Len(s) THEN <<line>>
    ELSE IF s[k] = NL THEN <<line>> \o Split(s, k + 1, <<>>)
    ELSE Split(s, k + 1, Append(line, s[k]))

AllowedLanguages ==
    {<<"r", "e", "n", "d", "e", "r">>, <<"j", "s", "o", "n">>,
     <<"j", "a", "v", "a", "s", "c", "r", "i", "p", "t">>, <<"j", "s">>}

\* currentCodeBlock === null, currentLanguage === null
NoBlock == 0 - 1
NoLanguage == <<None>>

\* isValidCommand(command)
IsValidCommand(command) ==
    /\ command.t \in {"object", "array"}
    /\ Prop(command, "name").t = "string" /\ Prop(command, "name").s # ""
    /\ Truthy(Prop(command, "arguments"))

Command(v, item) ==
    [name |-> Prop(v, "name").s, arguments |-> Prop(v, "arguments"), item |-> item]

\* for (const item of data)
RECURSIVE ValidItems(_, _, _)
ValidItems(data, k, commands) ==
    IF k > Len(data) THEN commands
    ELSE ValidItems(data, k + 1,
                    IF IsValidCommand(data[k].v) THEN Append(commands, Command(data[k].v, k))
                    ELSE commands)

\* for (const line of lines)
RECURSIVE ValidLines(_, _, _)
ValidLines(lines, k, st) ==
    IF k > Len(lines) \/ st.threw THEN st
    ELSE LET p == JSONParse(Trim(lines[k]))
         IN  ValidLines(lines, k + 1,
                        IF p.ok
                        THEN (IF IsValidCommand(p.v)
                              THEN [st EXCEPT !.out = Append(@, Command(p.v, k))]
                              ELSE st)
                        ELSE Caught(st))

\* parseCodeBlock(codeContent, language)
ParseCodeBlock(codeContent, language) ==
    LET st == [out |-> <<>>, threw |-> FALSE]
        c == Trim(codeContent)
        p == JSONParse(codeContent)
    IN  IF language \notin AllowedLanguages THEN st
        ELSE IF c # <<>> /\ c[1] = "["
        THEN IF p.ok
             THEN (IF p.v.t = "array" THEN [st EXCEPT !.out = ValidItems(p.v.m, 1, <<>>)]
                   ELSE st)
             ELSE Caught(st)
        ELSE IF c # <<>> /\ c[1] = "{"
        THEN IF p.ok
             THEN (IF IsValidCommand(p.v) THEN [st EXCEPT !.out = <<Command(p.v, 1)>>] ELSE st)
             ELSE Caught(st)
        ELSE ValidLines(SelectSeq(Split(codeContent, 1, <<>>), LAMBDA line : Trim(line) # <<>>),
                        1, st)

\* the commands of one block, with the history fields of the block
Located(commands, block, call, via) ==
    [k \in 1..Len(commands) |->
        [name |-> commands[k].name, arguments |-> commands[k].arguments,
         item |-> commands[k].item, block |-> block, call |-> call, via |-> via]]

\* a closing fence that the end of the buffer can stand for
ClosingFenceOrEnd(afterStart) ==
    IF IndexOf(afterStart, Fence) = 0 - 1 THEN Len(afterStart) ELSE IndexOf(afterStart, Fence)

\* afterStart.indexOf(fence)
ClosingFence(afterStart) == IndexOf(afterStart, Fence)

\* a list that grows at the front
PushFront(newCommands, commands) == commands \o newCommands

\* newCommands.push(...commands)
Push(newCommands, commands) == newCommands \o commands

\* the while loop of parseTextChunk; st = [buf, pos, block, lang, out, threw]
RECURSIVE ScanBlocks(_, _)
ScanBlocks(st, call) ==
    LET codeBlockStart == IndexOf(st.buf, Fence)
        afterStart == Substring(st.buf, codeBlockStart + 3, Len(st.buf))
        codeBlockEnd == ClosingFence(afterStart)
        fullCodeBlock == Substring(st.buf, codeBlockStart, codeBlockStart + 3 + codeBlockEnd + 3)
        languageMatch == LanguageMatch(Substring(fullCodeBlock, 3, Len(fullCodeBlock)))
        codeStart == 3 + languageMatch.length
        codeContent == Trim(Substring(fullCodeBlock, codeStart, Len(fullCodeBlock) - 3))
        r == ParseCodeBlock(codeContent, languageMatch.language)
    IN  IF st.threw \/ codeBlockStart = 0 - 1 THEN st
        ELSE IF codeBlockEnd = 0 - 1
        THEN IF st.block = NoBlock \/ st.block # codeBlockStart
             THEN [st EXCEPT !.block = codeBlockStart,
                             !.lang = LanguageMatch(afterStart).language]
             ELSE st
        ELSE ScanBlocks(
                 [buf |-> Substring(st.buf, 0, codeBlockStart)
                          \o Substring(st.buf, codeBlockStart + 3 + codeBlockEnd + 3, Len(st.buf)),
                  pos |-> Substring(st.pos, 0, codeBlockStart)
                          \o Substring(st.pos, codeBlockStart + 3 + codeBlockEnd + 3, Len(st.pos)),
                  block |-> NoBlock,
                  lang |-> NoLanguage,
                  out |-> Push(st.out, Located(r.out, st.pos[codeBlockStart + 1], call,
                                               "parseTextChunk")),
                  threw |-> r.threw],
                 call)

\* a parseTextChunk that scans the chunk alone, forgetting the text buffered
ScanChunkAlone(buf, pos, block, lang, textChunk, positions, call) ==
    ScanBlocks([buf |-> textChunk, pos |-> positions, block |-> block,
                lang |-> lang, out |-> <<>>, threw |-> FALSE], call)

\* parseTextChunk(textChunk); positions holds the places of the chunk's symbols in the text
ParseTextChunk(buf, pos, block, lang, textChunk, positions, call) ==
    ScanBlocks([buf |-> buf \o textChunk, pos |-> pos \o positions, block |-> block,
                lang |-> lang, out |-> <<>>, threw |-> FALSE], call)

\* IncrementalTextParser.flush()
TextParserFlush(buf, pos, block, lang, call) ==
    LET codeStart == block + (IF lang # NoLanguage /\ lang # <<>> THEN Len(lang) + 4 ELSE 4)
        codeContent == Trim(Substring(buf, codeStart, Len(buf)))
        r == IF block # NoBlock /\ buf # <<>> /\ codeContent # <<>>
             THEN ParseCodeBlock(codeContent, lang)
             ELSE [out |-> <<>>, threw |-> FALSE]
    IN  [buf |-> <<>>, pos |-> <<>>, block |-> NoBlock, lang |-> NoLanguage,
         out |-> IF r.out = <<>> THEN <<>> ELSE Located(r.out, pos[block + 1], call, "flush"),
         threw |-> r.threw]

----------------------------------------------------------------------------
(* StreamProcessor: its options and its queue of tool calls                *)
(*                                                                         *)
(* An option is a number, or one of two sentinels: the key is absent from  *)
(* the options object, or the key is there with the value undefined.       *)

AbsentKey == 0 - 2
Undefined == 0 - 1

\* the result of arithmetic on undefined
NaN == 0 - 1

\* an options object: batchSize and debounceMs
Options(batchSize, debounceMs) == [batchSize |-> batchSize, debounceMs |-> debounceMs]

\* the options of new Renderer(root)
NoOptions == Options(AbsentKey, AbsentKey)

\* options.key
Get(value) == IF value = AbsentKey THEN Undefined ELSE value

\* the object the Renderer hands to the StreamProcessor:
\* { batchSize: options.batchSize, debounceMs: options.debounceMs }
RendererOptions(given) == Options(Get(given.batchSize), Get(given.debounceMs))

\* value || fallback
OrElse(value, fallback) == IF value \in {Undefined, 0} THEN fallback ELSE value

\* { batchSize: options.batchSize || 1, debounceMs: options.debounceMs || 0, ...options }:
\* a key of the object given wins, whatever its value
StreamProcessorOptions(given) ==
    Options(IF given.batchSize = AbsentKey THEN OrElse(Get(given.batchSize), 1)
            ELSE given.batchSize,
            IF given.debounceMs = AbsentKey THEN OrElse(Get(given.debounceMs), 0)
            ELSE given.debounceMs)

\* i + batchSize
Plus(i, batchSize) == IF i = NaN \/ batchSize = Undefined THEN NaN ELSE i + batchSize

\* i < length
LessThan(i, length) == i # NaN /\ i < length

\* a slice with its calls in reverse
SliceBackwards(list, start, end) ==
    LET e == IF end = NaN THEN 0 ELSE IF end > Len(list) THEN Len(list) ELSE end
    IN  [k \in 1..(IF e > start THEN e - start ELSE 0) |-> list[e - k + 1]]

\* list.slice(start, end)
Slice(list, start, end) ==
    LET e == IF end = NaN THEN 0 ELSE IF end > Len(list) THEN Len(list) ELSE end
    IN  [k \in 1..(IF e > start THEN e - start ELSE 0) |-> list[start + k]]

\* for (let i = 0; i < pending.length; i += batchSize) batches.push(pending.slice(i, i + batchSize))
RECURSIVE Batches(_, _, _)
Batches(pending, batchSize, i) ==
    IF ~LessThan(i, Len(pending)) THEN <<>>
    ELSE <<Slice(pending, i, Plus(i, batchSize))>>
         \o Batches(pending, batchSize, Plus(i, batchSize))

\* for (const batch of batches): executeToolCalls(batch), each result reported
RECURSIVE ExecuteBatches(_, _, _)
ExecuteBatches(acc, batches, k) ==
    IF k > Len(batches) THEN acc
    ELSE ExecuteBatches(ExecuteToolCalls(acc, batches[k], 1), batches, k + 1)

\* flushPendingToolCalls() with the queue pending; acc = [els, dom, gen, results]
FlushPendingToolCalls(acc, pending, opts) ==
    IF Len(pending) = 0 THEN acc
    ELSE ExecuteBatches(acc, Batches(pending, opts.batchSize, 0), 1)

\* ToolCallHandler.parseToolCallsFromChunk(chunk), for a chunk without choices
ParseToolCallsFromChunk(chunk) ==
    chunk.tool_calls
    \o (IF chunk.single # <<>> /\ chunk.single[1].name \notin {None, ""}
           /\ chunk.single[1].arguments # <<>>
        THEN chunk.single ELSE <<>>)

\* this.options.debounceMs > 0
Debounced(opts) == opts.debounceMs # Undefined /\ opts.debounceMs > 0

\* processChunk(chunk); st = [acc, pending, timer]
StreamProcessChunk(st, chunk, opts) ==
    LET toolCalls == ParseToolCallsFromChunk(chunk)
        pending == st.pending \o toolCalls
    IN  IF Len(toolCalls) = 0 THEN st
        ELSE IF Debounced(opts)
        THEN [st EXCEPT !.pending = pending, !.timer = TRUE]
        ELSE [st EXCEPT !.pending = <<>>,
                        !.acc = FlushPendingToolCalls(st.acc, pending, opts)]

\* processStream(stream) for a stream that is an array of chunks
RECURSIVE ProcessStream(_, _, _, _)
ProcessStream(st, stream, opts, k) ==
    IF k > Len(stream)
    THEN [st EXCEPT !.pending = <<>>,
                    !.acc = FlushPendingToolCalls(st.acc, st.pending, opts)]
    ELSE ProcessStream(StreamProcessChunk(st, stream[k], opts), stream, opts, k + 1)

----------------------------------------------------------------------------
(* DOMManager.setProps: the attributes of a node                           *)
(*                                                                         *)
(* props is a parsed object; its members are Object.entries(props).        *)

\* String(value) of a value handed to the DOM
AttrString(v) ==
    IF v.t \in {"string", "number"} THEN v.s
    ELSE IF v.t = "null" THEN "null"
    ELSE "[object Object]"

\* typeof value === 'object'
IsObject(v) == v.t \in {"object", "array", "null"}

\* Object.assign(target, value): the members are written onto the target one
\* by one, and what the target holds under other names stays
RECURSIVE ObjectAssign(_, _, _)
ObjectAssign(target, members, k) ==
    IF k > Len(members) THEN target
    ELSE ObjectAssign(MapSet(target, members[k].k, AttrString(members[k].v)), members, k + 1)

\* const { id, children, textContent, ...restProps } = props
RestProps(props) ==
    SelectSeq(props.m, LAMBDA e : e.k \notin {"id", "children", "textContent"})

\* for (const [key, value] of Object.entries(restProps)), from the k-th entry.
\* node.className is the attribute class, named className here as in props.
RECURSIVE SetRestProps(_, _, _)
SetRestProps(node, entries, k) ==
    IF k > Len(entries) THEN node
    ELSE LET key == entries[k].k
             value == entries[k].v
         IN  SetRestProps(
                 IF key = "style" /\ IsObject(value)
                 THEN [node EXCEPT !.style = ObjectAssign(@, value.m, 1)]
                 ELSE [node EXCEPT !.attributes = MapSet(@, key, AttrString(value))],
                 entries, k + 1)

\* node.style.opacity = '0'; node.style.transform = 'translateX(50px)'
FlyIn(node) ==
    [node EXCEPT !.style = MapSet(MapSet(@, "opacity", "0"), "transform", "translateX(50px)")]

\* createElement(parentId, tagName, props) with every member of props: the
\* state when createElement returns, before the first animation frame
CreateElementProps(els, dom, gen, parentId, tagName, props) ==
    LET r == CreateElement(els, dom, gen, parentId, tagName,
                           PropsIdArg(props), PropsTextArg(props))
        n == r.els[r.out].node
    IN  IF r.ok
        THEN [r EXCEPT !.dom = [@ EXCEPT ![n] = FlyIn(SetRestProps(@, RestProps(props), 1))]]
        ELSE r

\* updateElement(elementId, props) with every member of props
UpdateElementProps(els, dom, elementId, props) ==
    LET r == UpdateElement(els, dom, elementId, PropsIdArg(props), PropsTextArg(props))
        n == els[elementId].node
    IN  IF r.ok
        THEN [r EXCEPT !.dom = [@ EXCEPT ![n] = SetRestProps(@, RestProps(props), 1)]]
        ELSE r

----------------------------------------------------------------------------
(* IncrementalTextRenderer: the driver of the text feed *)

\* JSON.stringify(v) of a parsed value: no white space between the lexemes
RECURSIVE JSONStringify(_)
RECURSIVE StringifyMembers(_, _, _)
JSONStringify(v) ==
    IF v.t = "string" THEN <<Q(v.s)>>
    ELSE IF v.t = "number" THEN <<v.s>>
    ELSE IF v.t = "object" THEN <<"{">> \o StringifyMembers(v.m, 1, TRUE) \o <<"}">>
    ELSE IF v.t = "array" THEN <<"[">> \o StringifyMembers(v.m, 1, FALSE) \o <<"]">>
    ELSE NullWord

\* the members of an object (withKeys) or the items of an array, from the k-th
StringifyMembers(members, k, withKeys) ==
    IF k > Len(members) THEN <<>>
    ELSE (IF k > 1 THEN <<",">> ELSE <<>>)
         \o (IF withKeys THEN <<Q(members[k].k), ":">> ELSE <<>>)
         \o JSONStringify(members[k].v)
         \o StringifyMembers(members, k + 1, withKeys)

\* `cmd_${Date.now()}_${Math.random()...}`: the id plays no part in the dispatch
CommandId == "cmd"

\* the text of a string value; no string of StrContents is a JSON text
CharsOf(v) == <<v.s>>

\* { id, name: command.name, arguments: typeof command.arguments === 'string'
\*   ? command.arguments : JSON.stringify(command.arguments) }
ToolCallOfCommand(command) ==
    [id |-> CommandId, name |-> command.name,
     arguments |-> IF command.arguments.t = "string" THEN CharsOf(command.arguments)
                   ELSE JSONStringify(command.arguments)]

\* the catch branch builds its entry without a toolCall
NoToolCall == [id |-> None, name |-> None, arguments |-> <<>>]

\* { success, result | error, toolCall, command }
CommandOutcome(success, out, toolCall, command) ==
    [success |-> success, out |-> out, toolCall |-> toolCall, command |-> command]

\* processTextChunk: this.executedCommands.push(entry) in the try branch
PushOnRecord(acc, entry) == [acc EXCEPT !.executed = Append(@, entry)]

\* flush: executedCommands.push(entry) in the try branch
PushOnReturned(acc, entry) == [acc EXCEPT !.results = Append(@, entry)]

\* the try branch after executeToolCall returned: the entry is pushed, then
\* options.onToolCall is called with an equal entry
Succeeded(acc, entry, op) ==
    LET pushed == IF op = "processTextChunk" THEN PushOnRecord(acc, entry)
                  ELSE PushOnReturned(acc, entry)
    IN  [pushed EXCEPT !.notified = Append(@, entry)]

\* the catch branch: the entry is pushed on the local list, then options.onError
Failed(acc, entry) ==
    [acc EXCEPT !.results = Append(@, entry), !.notified = Append(@, entry)]

\* for (const command of commands) of processTextChunk and of flush, from the k-th
RECURSIVE DispatchCommands(_, _, _, _)
DispatchCommands(acc, commands, k, op) ==
    IF k > Len(commands) THEN acc
    ELSE LET command == commands[k]
             toolCall == ToolCallOfCommand(command)
             r == ExecuteToolCall(acc.els, acc.dom, acc.gen, toolCall.name, toolCall.arguments)
             stored == [acc EXCEPT !.els = r.els, !.dom = r.dom, !.gen = r.gen]
         IN  DispatchCommands(
                 IF r.ok THEN Succeeded(stored, CommandOutcome(TRUE, r.out, toolCall, command), op)
                 ELSE Failed(stored, CommandOutcome(FALSE, r.out, NoToolCall, command)),
                 commands, k + 1, op)

----------------------------------------------------------------------------
(* Construction *)

\* new DOMManager(root)
InitDOMManager ==
    /\ elements = << >>
    /\ nodes = InitDocument
    /\ genCount = 0
    /\ nOps = 0
    /\ last = NoCall

\* new IncrementalRenderer(root): its parser and its record of executed calls
InitIncrementalRenderer ==
    /\ toolCallBuffer = <<>>
    /\ completedToolCalls = {}
    /\ executedToolCalls = <<>>
    /\ returned = <<>>
    /\ emitted = <<>>
    /\ applied = <<>>
    /\ nCalls = 0
    /\ lastChunk = NoChunk
    /\ lastCall = "none"
    /\ discarded = {}
    /\ received = <<>>

\* new IncrementalTextParser(), with no text to deliver, and the record of
\* executed commands of the IncrementalTextRenderer that owns it
InitIncrementalTextParser ==
    /\ executedCommands = <<>>
    /\ textBuffer = <<>>
    /\ currentCodeBlock = NoBlock
    /\ currentLanguage = NoLanguage
    /\ bufPos = <<>>
    /\ fed = 0
    /\ textCalls = <<>>
    /\ textOut = <<>>
    /\ textLog = <<>>

\* new StreamProcessor(domManager, given)
InitStreamProcessor(given) ==
    /\ pendingToolCalls = <<>>
    /\ debounceTimer = FALSE
    /\ options = StreamProcessorOptions(given)
    /\ queued = <<>>
    /\ handedOver = <<>>

\* new Renderer(root, given): no tool call handed to it yet
InitRendererWith(given) ==
    /\ called = <<>>
    /\ outcome = NoOutcome
    /\ InitStreamProcessor(RendererOptions(given))

\* new Renderer(root)
InitRenderer == InitRendererWith(NoOptions)

Init ==
    /\ InitDOMManager
    /\ InitIncrementalRenderer
    /\ InitIncrementalTextParser
    /\ InitRenderer
    /\ doc = <<>>
    /\ raised = FALSE

\* one more tool call, within the bound
Tick ==
    /\ nOps < MaxOps
    /\ nOps' = nOps + 1
    /\ UNCHANGED <<deltaVars, raised, textVars, dispatchVars>>

\* A call that h rejects for its tagName is made with no other argument, a
\* call that the document rejects for its tagName with no parentId and no text.
DoH ==
    /\ Tick
    /\ \E parentId \in {None, Root} \cup AllIds,
          tagName \in TagNames \cup InvalidTagNames \cup {None, ""},
          propsId \in Ids \cup {None}, propsText \in {NoText, <<"x">>} :
        /\ tagName \in {None, ""} => parentId = None /\ propsId = None /\ propsText = NoText
        /\ tagName \in InvalidTagNames => parentId = None /\ propsText = NoText
        /\ (propsId = None /\ tagName \notin {None, ""}) => genCount < MaxGen
        /\ LET r == ToolH(elements, nodes, genCount, parentId, tagName, propsId, propsText)
           IN  /\ elements' = r.els
               /\ nodes' = r.dom
               /\ genCount' = r.gen
               /\ last' = Call("h", [NoArgs EXCEPT !.parent = parentId, !.tagName = tagName,
                                                   !.newId = propsId, !.text = propsText], r)

DoUpdateElement ==
    /\ Tick
    /\ \E elementId \in AllIds, propsId \in Ids \cup {None}, propsText \in {NoText, <<"x">>} :
        LET r == ToolUpdateElement(elements, nodes, elementId, propsId, propsText)
        IN  /\ elements' = r.els
            /\ nodes' = r.dom
            /\ last' = Call("updateElement", [NoArgs EXCEPT !.target = elementId,
                                                            !.newId = propsId,
                                                            !.text = propsText], r)
            /\ UNCHANGED genCount

DoSetText ==
    /\ Tick
    /\ \E elementId \in AllIds, text \in Texts \cup {NoText} :
        LET r == ToolSetText(elements, nodes, elementId, text)
        IN  /\ elements' = r.els
            /\ nodes' = r.dom
            /\ last' = Call("setText", [NoArgs EXCEPT !.target = elementId, !.text = text], r)
            /\ UNCHANGED genCount

DoAppendText ==
    /\ Tick
    /\ \E elementId \in AllIds, text \in Texts \cup {NoText} :
        /\ elementId \in DOMAIN elements =>
               Len(TextContent(nodes, elements[elementId].node)) + Len(TextArg(text)) <= MaxText
        /\ LET r == ToolAppendText(elements, nodes, elementId, text)
           IN  /\ elements' = r.els
               /\ nodes' = r.dom
               /\ last' = Call("appendText", [NoArgs EXCEPT !.target = elementId,
                                                            !.text = text], r)
               /\ UNCHANGED genCount

DoRemoveElement ==
    /\ Tick
    /\ \E elementId \in AllIds :
        LET r == ToolRemoveElement(elements, nodes, elementId)
        IN  /\ elements' = r.els
            /\ nodes' = r.dom
            /\ last' = Call("removeElement", [NoArgs EXCEPT !.target = elementId], r)
            /\ UNCHANGED genCount

DoClear ==
    /\ Tick
    /\ elements' = ClearElements
    /\ nodes' = ClearDocument(elements, nodes)
    /\ last' = Call("clear", NoArgs, [ok |-> TRUE, out |-> None])
    /\ UNCHANGED genCount

NextStore ==
    \/ DoH
    \/ DoUpdateElement
    \/ DoSetText
    \/ DoAppendText
    \/ DoRemoveElement
    \/ DoClear

SpecStore == Init /\ [][NextStore]_vars

\* the store driven by create instructions alone
NextCreate == DoH

SpecCreate == Init /\ [][NextCreate]_vars

----------------------------------------------------------------------------
(* The store driven from a document that holds two elements *)

\* the store after h(null, 'div', {id: 'a'}) and h(null, 'DIV', {id: 'b'})
TwoElements ==
    LET first == ToolH(<< >>, InitDocument, 0, None, "div", "a", NoText)
    IN  ToolH(first.els, first.dom, first.gen, None, "DIV", "b", NoText)

InitTwoElements ==
    /\ elements = TwoElements.els
    /\ nodes = TwoElements.dom
    /\ genCount = TwoElements.gen
    /\ nOps = 0
    /\ last = NoCall
    /\ InitIncrementalRenderer
    /\ InitIncrementalTextParser
    /\ InitRenderer
    /\ doc = <<>>
    /\ raised = FALSE

\* toLowerCase and the upper case of the DOM, on tag names
TagToLowerCase(s) == IF s = "DIV" THEN "div" ELSE s

TagToUpperCase(s) == IF s = "div" THEN "DIV" ELSE s

\* node.tagName: the qualified name of an HTML element, in upper case
TagNameOf(node) == TagToUpperCase(node.tagName)

\* getTree handing out the children Set of the entry itself
SameSet(id, children) == [owner |-> id, items |-> children]

\* Array.from(info.children): a new array holding the ids of the Set in
\* insertion order; owner names the entry whose own Set the value is, if any
ArrayFrom(id, children) == [owner |-> None, items |-> children]

\* DOMManager.getTree
GetTree(els, dom) ==
    [id \in DOMAIN els |->
        [tagName |-> TagToLowerCase(TagNameOf(dom[els[id].node])),
         parentId |-> els[id].parentId,
         children |-> ArrayFrom(id, els[id].children)]]

\* the store after tree[id].children.push(childId) on a snapshot
PushOnSnapshot(els, tree, id, childId) ==
    IF tree[id].children.owner = None THEN els
    ELSE [els EXCEPT ![tree[id].children.owner].children = Append(@, childId)]

\* Renderer.getTree
DoGetTree ==
    /\ nOps < MaxOps
    /\ nOps' = nOps + 1
    /\ last' = Call("getTree", NoArgs, [ok |-> TRUE, out |-> None])
    /\ outcome' = Outcome("getTree", FALSE, GetTree(elements, nodes), None, << >>)
    /\ UNCHANGED <<elements, nodes, genCount, deltaVars, raised, textVars, called, streamVars>>

SpecTwoElements == InitTwoElements /\ [][NextStore]_vars

\* creations and removals, with the tree inspected in between
NextInspect ==
    \/ DoH
    \/ DoRemoveElement
    \/ DoGetTree

SpecInspect == InitTwoElements /\ [][NextInspect]_vars

----------------------------------------------------------------------------
(* IncrementalRenderer: the structured-delta assembler driving the store *)

\* At most this many calls on the IncrementalRenderer.
MaxCalls == 4

Slots == {0, 1}
CallIds == {"call_1"}

\* {"tagName":"div","props":{"id":"a"}}
PayloadA == <<"{", Q("tagName"), ":", Q("div"), ",", Q("props"), ":",
              "{", Q("id"), ":", Q("a"), "}", "}">>

\* {"parentId":"a","tagName":"div","props":{"id":"b"}}
PayloadB == <<"{", Q("parentId"), ":", Q("a"), ",", Q("tagName"), ":", Q("div"), ",",
              Q("props"), ":", "{", Q("id"), ":", Q("b"), "}", "}">>

Close == <<"}">>

Fragment(index, id, name, arguments) ==
    [index |-> index, id |-> id, name |-> name, arguments |-> arguments]

\* the payload the model sends on a slot
PayloadOf(i) == IF i = 0 THEN PayloadA ELSE PayloadB

\* the first fragment of a slot: name, possibly an id, and all of the payload but its end
Opener(i) == Fragment(i, IF i = 0 THEN "call_1" ELSE None, "h", Truncated(PayloadOf(i)))

\* the end of the payload
Closer(i) == Fragment(i, None, None, Close)

\* name and complete payload in one fragment
Whole(i) == Fragment(i, None, "h", PayloadOf(i))

\* a complete payload without a name, and a name without payload
Nameless(i) == Fragment(i, None, None, PayloadOf(i))
NameOnly(i) == Fragment(i, None, "nope", <<>>)

DeltaLists ==
    {<<Opener(0)>>, <<Opener(1)>>, <<Closer(0)>>, <<Closer(1)>>, <<Whole(0)>>,
     <<Nameless(0)>>, <<NameOnly(0)>>,
     <<Opener(0), Opener(1)>>, <<Closer(0), Closer(1)>>, <<Closer(1), Closer(0)>>}

Chunks ==
    {Chunk(d, <<>>, <<>>, <<>>) : d \in DeltaLists}
    \cup {Chunk(<<>>, <<t>>, <<>>, <<>>) : t \in {Whole(0), Opener(1)}}
    \cup {Chunk(<<>>, <<>>, <<Fragment(NoIndex, None, "h", PayloadA)>>, <<>>),
          Chunk(<<>>, <<>>, <<>>, <<Fragment(1, None, "h", PayloadA)>>)}

\* a loop that takes the completed calls last to first
LastToFirst(calls, k) == calls[Len(calls) - k + 1]

\* for (const toolCall of calls): the k-th call taken
InOrder(calls, k) == calls[k]

\* the loop of processChunk and of flush over the completed calls
RECURSIVE DispatchAll(_, _, _)
DispatchAll(acc, calls, k) ==
    IF k > Len(calls) THEN acc
    ELSE LET toolCall == InOrder(calls, k)
             r == ExecuteToolCall(acc.els, acc.dom, acc.gen, toolCall.name, toolCall.arguments)
         IN  DispatchAll(
                 [els |-> r.els, dom |-> r.dom, gen |-> r.gen,
                  executed |-> IF r.ok
                               THEN Append(acc.executed,
                                           [id |-> toolCall.id, name |-> toolCall.name,
                                            arguments |-> toolCall.arguments])
                               ELSE acc.executed,
                  results |-> Append(acc.results,
                                     [success |-> r.ok, out |-> r.out, toolCall |-> toolCall]),
                  notified |-> Append(acc.notified,
                                      [success |-> r.ok, out |-> r.out, toolCall |-> toolCall])],
                 calls, k + 1)

\* what processChunk and flush do with the parser's result st
Execute(st, chunk) ==
    LET d == DispatchAll([els |-> elements, dom |-> nodes, gen |-> genCount,
                          executed |-> executedToolCalls, results |-> <<>>,
                          notified |-> <<>>],
                         IF st.threw THEN <<>> ELSE st.out, 1)
    IN  /\ d.gen <= MaxGen
        /\ toolCallBuffer' = st.buf
        /\ completedToolCalls' = st.done
        /\ elements' = d.els
        /\ nodes' = d.dom
        /\ genCount' = d.gen
        /\ executedToolCalls' = d.executed
        /\ returned' = d.results
        /\ emitted' = emitted \o st.out
        /\ applied' = applied \o d.notified
        /\ raised' = (raised \/ st.threw)
        /\ nCalls' = nCalls + 1
        /\ lastChunk' = chunk
        /\ UNCHANGED <<nOps, last, textVars, dispatchVars>>

\* the entries of delta.tool_calls of the chunk of call chunkNo, with their places
Delivered(delta, chunkNo) ==
    [k \in 1..Len(delta) |-> [fragment |-> delta[k], at |-> <<chunkNo, k>>]]

\* IncrementalRenderer.processChunk(chunk)
ProcessChunk ==
    /\ nCalls < MaxCalls
    /\ \E chunk \in Chunks :
           Execute(ParseChunk(toolCallBuffer, completedToolCalls, chunk, nCalls + 1), chunk)
    /\ lastCall' = "processChunk"
    /\ discarded' = discarded
    /\ received' = received \o Delivered(lastChunk'.delta, nCalls + 1)

\* the slot keys of the pending records that a flush with result st did not emit
Dropped(buf, st) == {buf[i].index : i \in 1..Len(buf)} \ st.done

\* IncrementalRenderer.flush()
RendererFlush ==
    /\ nCalls < MaxCalls
    /\ Execute(ParserFlush(toolCallBuffer, completedToolCalls, nCalls + 1), NoChunk)
    /\ lastCall' = "flush"
    /\ discarded' = discarded \cup
           Dropped(toolCallBuffer, ParserFlush(toolCallBuffer, completedToolCalls, nCalls + 1))
    /\ received' = received

\* IncrementalRenderer.reset()
RendererReset ==
    /\ nCalls < MaxCalls
    /\ nCalls' = nCalls + 1
    /\ lastChunk' = NoChunk
    /\ toolCallBuffer' = <<>>
    /\ completedToolCalls' = {}
    /\ executedToolCalls' = <<>>
    /\ emitted' = <<>>
    /\ returned' = <<>>
    /\ lastCall' = "reset"
    /\ discarded' = {}
    /\ received' = <<>>
    /\ UNCHANGED <<storeVars, applied, raised, textVars, dispatchVars>>

\* IncrementalRenderer.clear()
RendererClear ==
    /\ nCalls < MaxCalls
    /\ nCalls' = nCalls + 1
    /\ lastChunk' = NoChunk
    /\ elements' = ClearElements
    /\ nodes' = ClearDocument(elements, nodes)
    /\ toolCallBuffer' = <<>>
    /\ completedToolCalls' = {}
    /\ executedToolCalls' = <<>>
    /\ emitted' = <<>>
    /\ applied' = <<>>
    /\ returned' = <<>>
    /\ lastCall' = "clear"
    /\ discarded' = {}
    /\ received' = <<>>
    /\ UNCHANGED <<genCount, nOps, last, raised, textVars, dispatchVars>>

NextDelta ==
    \/ ProcessChunk
    \/ RendererFlush
    \/ RendererReset
    \/ RendererClear

SpecDelta == Init /\ [][NextDelta]_vars

----------------------------------------------------------------------------
(* The Renderer handed tool calls, one at a time and in lists *)

ToolCall(name, arguments) == [name |-> name, arguments |-> arguments]

\* {"elementId":"<id>"}
TargetOnly(id) == <<"{", Q("elementId"), ":", Q(id), "}">>

\* {"elementId":"<id>","text":"x"}
TargetAndText(id) == <<"{", Q("elementId"), ":", Q(id), ",", Q("text"), ":", Q("x"), "}">>

\* {"tagName":"<p>","props":{"id":"a"}}
PayloadBadTag == <<"{", Q("tagName"), ":", Q("<p>"), ",", Q("props"), ":",
                   "{", Q("id"), ":", Q("a"), "}", "}">>

\* {"props":{"id":"a"}}
PayloadNoTag == <<"{", Q("props"), ":", "{", Q("id"), ":", Q("a"), "}", "}">>

\* the tool calls the model hands over
ToolCalls ==
    {ToolCall("h", PayloadA), ToolCall("h", PayloadB),
     ToolCall("h", PayloadBadTag), ToolCall("h", PayloadNoTag),
     ToolCall("h", Truncated(PayloadA)),
     ToolCall("setText", TargetAndText("a")), ToolCall("appendText", TargetAndText("c")),
     ToolCall("removeElement", TargetOnly("a")), ToolCall("removeElement", TargetOnly("c")),
     ToolCall("updateElement", <<"{", "}">>),
     ToolCall("updateElement", TargetOnly("a")),
     ToolCall("setText", TargetOnly("a")),
     ToolCall("nope", <<"{", "}">>),
     ToolCall(None, <<"{", "}">>),
     ToolCall("toString", <<"{", "}">>),
     ToolCall("hasOwnProperty", <<"{", "}">>)}

\* At most this many tool calls in one list.
MaxBatch == 2

RECURSIVE ListsOf(_, _)
ListsOf(S, n) ==
    IF n = 0 THEN {<< >>}
    ELSE LET shorter == ListsOf(S, n - 1)
         IN  shorter \cup {Append(l, x) : l \in {s \in shorter : Len(s) = n - 1}, x \in S}

\* Renderer.executeToolCall(toolCall)
RendererExecuteToolCall ==
    /\ nOps < MaxOps
    /\ \E toolCall \in ToolCalls :
        LET r == ExecuteToolCall(elements, nodes, genCount, toolCall.name, toolCall.arguments)
        IN  /\ elements' = r.els
            /\ nodes' = r.dom
            /\ genCount' = r.gen
            /\ nOps' = nOps + 1
            /\ called' = <<toolCall>>
            /\ outcome' = IF r.ok THEN Outcome("executeToolCall", FALSE, r.out, None, << >>)
                          ELSE Outcome("executeToolCall", TRUE, None, r.out, << >>)
            /\ UNCHANGED <<last, deltaVars, raised, textVars, streamVars>>

\* Renderer.executeToolCalls(toolCalls)
RendererExecuteToolCalls ==
    \E toolCalls \in ListsOf(ToolCalls, MaxBatch) :
        /\ nOps + Len(toolCalls) <= MaxOps
        /\ toolCalls # << >>
        /\ LET d == ExecuteToolCalls([els |-> elements, dom |-> nodes, gen |-> genCount,
                                      results |-> << >>], toolCalls, 1)
           IN  /\ elements' = d.els
               /\ nodes' = d.dom
               /\ genCount' = d.gen
               /\ nOps' = nOps + Len(toolCalls)
               /\ called' = toolCalls
               /\ outcome' = Outcome("executeToolCalls", FALSE, None, None, d.results)
               /\ UNCHANGED <<last, deltaVars, raised, textVars, streamVars>>

NextDispatch ==
    \/ RendererExecuteToolCall
    \/ RendererExecuteToolCalls

SpecDispatch == Init /\ [][NextDispatch]_vars

----------------------------------------------------------------------------
(* The Renderer handed a stream: chunks that are tool calls or lists of them *)

\* At most this many chunks in one stream, and batches of at most this size.
MaxStream == 2
MaxBatchSize == 2

\* the tool calls the chunks are made of
StreamCalls ==
    {ToolCall("h", PayloadA), ToolCall("h", PayloadB),
     ToolCall("setText", TargetAndText("a")), ToolCall("removeElement", TargetOnly("a")),
     ToolCall("nope", <<"{", "}">>)}

\* the lists of tool calls that arrive in chunk.tool_calls
StreamLists ==
    {<<ToolCall("h", PayloadA), ToolCall("h", PayloadB)>>,
     <<ToolCall("h", PayloadA), ToolCall("setText", TargetAndText("a"))>>,
     <<ToolCall("setText", TargetAndText("a")), ToolCall("h", PayloadA)>>,
     <<ToolCall("nope", <<"{", "}">>), ToolCall("removeElement", TargetOnly("a"))>>}

\* a chunk that is one tool call, and a chunk with two tool calls in chunk.tool_calls
StreamChunks ==
    {Chunk(<<>>, <<>>, <<>>, <<toolCall>>) : toolCall \in StreamCalls}
    \cup {Chunk(<<>>, <<>>, toolCalls, <<>>) : toolCalls \in StreamLists}

\* the options a Renderer is created with
GivenOptions ==
    {Options(batchSize, debounceMs) :
        batchSize \in {AbsentKey} \cup 1..MaxBatchSize, debounceMs \in {AbsentKey, 1}}

\* the tool calls of the chunks of a stream, in order
RECURSIVE ToolCallsOf(_, _)
ToolCallsOf(stream, k) ==
    IF k > Len(stream) THEN <<>>
    ELSE ParseToolCallsFromChunk(stream[k]) \o ToolCallsOf(stream, k + 1)

\* the StreamProcessor before a call
Processor ==
    [acc |-> [els |-> elements, dom |-> nodes, gen |-> genCount, results |-> <<>>],
     pending |-> pendingToolCalls, timer |-> debounceTimer]

\* what a call leaves behind: st is the StreamProcessor after it, queue the
\* tool calls it took off the queue
AfterStreamCall(st, op, queue, handed) ==
    /\ elements' = st.acc.els
    /\ nodes' = st.acc.dom
    /\ genCount' = st.acc.gen
    /\ pendingToolCalls' = st.pending
    /\ debounceTimer' = st.timer
    /\ nOps' = nOps + handed
    /\ called' = queue
    /\ outcome' = Outcome(op, FALSE, None, None, st.acc.results)
    /\ UNCHANGED <<last, deltaVars, raised, textVars, options, queued, handedOver>>

\* StreamProcessor.processChunk(chunk)
DoProcessChunk ==
    \E chunk \in StreamChunks :
        /\ nOps + Len(ParseToolCallsFromChunk(chunk)) <= MaxOps
        /\ AfterStreamCall(StreamProcessChunk(Processor, chunk, options), "processChunk",
                           IF Debounced(options) THEN <<>>
                           ELSE pendingToolCalls \o ParseToolCallsFromChunk(chunk),
                           Len(ParseToolCallsFromChunk(chunk)))

\* the debounce timer fires: () => this.flushPendingToolCalls()
TimerFires ==
    /\ debounceTimer
    /\ AfterStreamCall([acc |-> FlushPendingToolCalls(Processor.acc, pendingToolCalls, options),
                        pending |-> <<>>, timer |-> FALSE],
                       "flushPendingToolCalls", pendingToolCalls, 0)

\* Renderer.renderStream(stream), stream an array of chunks
RenderStream ==
    \E stream \in ListsOf(StreamChunks, MaxStream) :
        /\ stream # <<>>
        /\ nOps + Len(ToolCallsOf(stream, 1)) <= MaxOps
        /\ AfterStreamCall(ProcessStream(Processor, stream, options, 1), "renderStream",
                           pendingToolCalls \o ToolCallsOf(stream, 1),
                           Len(ToolCallsOf(stream, 1)))

\* StreamProcessor.reset()
StreamReset ==
    /\ pendingToolCalls # <<>> \/ debounceTimer
    /\ AfterStreamCall([acc |-> Processor.acc, pending |-> <<>>, timer |-> FALSE],
                       "reset", <<>>, 0)

InitStream ==
    /\ InitDOMManager
    /\ InitIncrementalRenderer
    /\ InitIncrementalTextParser
    /\ \E given \in GivenOptions : InitRendererWith(given)
    /\ doc = <<>>
    /\ raised = FALSE

NextStream ==
    \/ DoProcessChunk
    \/ TimerFires
    \/ RenderStream
    \/ StreamReset

SpecStream == InitStream /\ [][NextStream]_vars

----------------------------------------------------------------------------
(* The StreamProcessor with a debounce delay, fed a stream that delivers    *)
(* its chunks one at a time: the timer may fire between two chunks and      *)
(* before or after the flush that ends processStream                        *)

\* the options a debounced Renderer is created with
DebouncedOptions ==
    {Options(batchSize, 1) : batchSize \in {AbsentKey} \cup 1..MaxBatchSize}

\* the tool calls of a list of batches, in order
RECURSIVE CallsOf(_, _)
CallsOf(batches, k) ==
    IF k > Len(batches) THEN <<>> ELSE batches[k] \o CallsOf(batches, k + 1)

\* the tool calls one flushPendingToolCalls() hands to executeToolCalls
HandedBy(pending, opts) ==
    IF Len(pending) = 0 THEN <<>> ELSE CallsOf(Batches(pending, opts.batchSize, 0), 1)

\* what a call leaves behind: st is the StreamProcessor after it, arrived the
\* tool calls it put on the queue, flushed the queue it flushed
AfterDebouncedCall(st, op, arrived, flushed) ==
    /\ elements' = st.acc.els
    /\ nodes' = st.acc.dom
    /\ genCount' = st.acc.gen
    /\ pendingToolCalls' = st.pending
    /\ debounceTimer' = st.timer
    /\ nOps' = nOps + Len(arrived)
    /\ called' = flushed
    /\ outcome' = Outcome(op, FALSE, None, None, st.acc.results)
    /\ queued' = queued \o arrived
    /\ handedOver' = handedOver \o HandedBy(flushed, options)
    /\ UNCHANGED <<last, deltaVars, raised, textVars, options>>

\* processStream: the next chunk of the stream arrives, await this.processChunk(chunk)
ChunkArrives ==
    \E chunk \in StreamChunks :
        /\ nOps + Len(ParseToolCallsFromChunk(chunk)) <= MaxOps
        /\ AfterDebouncedCall(StreamProcessChunk(Processor, chunk, options), "processChunk",
                              ParseToolCallsFromChunk(chunk),
                              IF Debounced(options) THEN <<>>
                              ELSE pendingToolCalls \o ParseToolCallsFromChunk(chunk))

\* the debounce timer fires: () => this.flushPendingToolCalls()
DebounceTimerFires ==
    /\ debounceTimer
    /\ AfterDebouncedCall([acc |-> FlushPendingToolCalls(Processor.acc, pendingToolCalls,
                                                         options),
                           pending |-> <<>>, timer |-> FALSE],
                          "flushPendingToolCalls", <<>>, pendingToolCalls)

\* processStream: the stream is done, await this.flushPendingToolCalls();
\* the timer stays armed
StreamEnds ==
    /\ queued # <<>>
    /\ AfterDebouncedCall([acc |-> FlushPendingToolCalls(Processor.acc, pendingToolCalls,
                                                         options),
                           pending |-> <<>>, timer |-> debounceTimer],
                          "processStream", <<>>, pendingToolCalls)

\* StreamProcessor.reset() between two streams
ProcessorReset ==
    /\ pendingToolCalls # <<>> \/ debounceTimer
    /\ elements' = elements
    /\ nodes' = nodes
    /\ genCount' = genCount
    /\ pendingToolCalls' = <<>>
    /\ debounceTimer' = FALSE
    /\ called' = <<>>
    /\ outcome' = Outcome("reset", FALSE, None, None, <<>>)
    /\ queued' = <<>>
    /\ handedOver' = <<>>
    /\ UNCHANGED <<nOps, last, deltaVars, raised, textVars, options>>

InitDebounced ==
    /\ InitDOMManager
    /\ InitIncrementalRenderer
    /\ InitIncrementalTextParser
    /\ \E given \in DebouncedOptions : InitRendererWith(given)
    /\ doc = <<>>
    /\ raised = FALSE

NextDebounced ==
    \/ ChunkArrives
    \/ DebounceTimerFires
    \/ StreamEnds
    \/ ProcessorReset

SpecDebounced == InitDebounced /\ [][NextDebounced]_vars

----------------------------------------------------------------------------
(* The text assembler fed a text chunk by chunk *)

\* At most this many calls on the IncrementalTextParser.
MaxTextCalls == 3

\* {"name":n,"arguments":{}}
Cmd(n) == <<"{", Q("name"), ":", Q(n), ",", Q("arguments"), ":", "{", "}", "}">>

\* {"name":n,"arguments":<arguments>}
CmdWith(n, arguments) ==
    <<"{", Q("name"), ":", Q(n), ",", Q("arguments"), ":">> \o arguments \o <<"}">>

JsTag == <<"j", "s">>
JsonTag == <<"j", "s", "o", "n">>
RenderTag == <<"r", "e", "n", "d", "e", "r">>
JavascriptTag == <<"j", "a", "v", "a", "s", "c", "r", "i", "p", "t">>

\* a closed fenced block
Block(tag, content) == Fence \o tag \o <<NL>> \o content \o <<NL>> \o Fence

\* The texts delivered.  names lists, left to right, the names of the valid
\* instructions in the closed blocks with an allowed tag.
DocTable ==
    {[text |-> Block(JsTag, Cmd("h")), names |-> <<"h">>],
     [text |-> Block(JsonTag, Cmd("h")) \o <<" ">> \o Block(JsTag, Cmd("setText")),
      names |-> <<"h", "setText">>],
     [text |-> Block(RenderTag, <<"[">> \o Cmd("h") \o <<",">> \o Cmd("setText") \o <<"]">>),
      names |-> <<"h", "setText">>],
     [text |-> Block(JsTag, <<"[", "1", ",">> \o Cmd("h") \o <<"]">>), names |-> <<"h">>],
     [text |-> Block(JsTag, <<"1", NL>> \o Cmd("h") \o <<NL>> \o Cmd("setText")),
      names |-> <<"h", "setText">>],
     [text |-> Block(JsTag, Truncated(Cmd("h"))) \o Block(JsTag, Cmd("setText")),
      names |-> <<"setText">>],
     [text |-> Block(<<"j">>, Cmd("h")) \o Block(<<"J", "S">>, Cmd("setText")),
      names |-> <<"setText">>],
     [text |-> <<"o", " ">> \o Fence \o JsTag \o <<NL>> \o Cmd("h"), names |-> <<>>],
     [text |-> Fence \o JsTag \o Cmd("h") \o Fence, names |-> <<"h">>],
     [text |-> Block(JavascriptTag, Cmd("h")), names |-> <<"h">>],
     [text |-> Fence \o JsTag \o <<NL>> \o Truncated(Cmd("h")), names |-> <<>>],
     [text |-> Block(JsTag, <<"[">> \o CmdWith("h", <<"1">>) \o <<",">> \o Cmd("setText")
                            \o <<",">> \o CmdWith("h", <<Q("")>>) \o <<"]">>),
      names |-> <<"h", "setText">>],
     [text |-> Block(<<>>, Cmd("h")) \o Block(JsTag, Cmd("setText")), names |-> <<"setText">>],
     [text |-> Fence \o <<"j", "s", "o">> \o <<NL>> \o Cmd("h"), names |-> <<>>]}

Docs == {d.text : d \in DocTable}

InitText ==
    /\ InitDOMManager
    /\ InitIncrementalRenderer
    /\ InitIncrementalTextParser
    /\ InitRenderer
    /\ doc \in Docs
    /\ raised = FALSE

\* what a call leaves behind: r is the parser's result
AfterTextCall(r, op, n) ==
    /\ textBuffer' = r.buf
    /\ bufPos' = r.pos
    /\ currentCodeBlock' = r.block
    /\ currentLanguage' = r.lang
    /\ textOut' = r.out
    /\ textLog' = textLog \o r.out
    /\ textCalls' = Append(textCalls, [op |-> op, n |-> n])
    /\ raised' = (raised \/ r.threw)
    /\ fed' = fed + n
    /\ UNCHANGED <<storeVars, deltaVars, doc, executedCommands, dispatchVars>>

\* parseTextChunk(the next n symbols of the text)
DoParseTextChunk ==
    /\ Len(textCalls) < MaxTextCalls
    /\ \E n \in 1..(Len(doc) - fed) :
           AfterTextCall(ParseTextChunk(textBuffer, bufPos, currentCodeBlock, currentLanguage,
                                        SubSeq(doc, fed + 1, fed + n),
                                        [i \in 1..n |-> fed + i], Len(textCalls) + 1),
                         "parseTextChunk", n)

\* IncrementalTextParser.flush()
DoTextFlush ==
    /\ Len(textCalls) < MaxTextCalls
    /\ AfterTextCall(TextParserFlush(textBuffer, bufPos, currentCodeBlock, currentLanguage,
                                     Len(textCalls) + 1), "flush", 0)

\* IncrementalTextParser.reset()
DoTextReset ==
    /\ Len(textCalls) < MaxTextCalls
    /\ AfterTextCall([buf |-> <<>>, pos |-> <<>>, block |-> NoBlock, lang |-> NoLanguage,
                      out |-> <<>>, threw |-> FALSE], "reset", 0)

NextText ==
    \/ DoParseTextChunk
    \/ DoTextFlush
    \/ DoTextReset

SpecText == InitText /\ [][NextText]_vars

----------------------------------------------------------------------------
(* Either assembler fed a stream: a behaviour delivers fragments or a text *)

InitFeeds ==
    /\ InitDOMManager
    /\ InitIncrementalRenderer
    /\ InitIncrementalTextParser
    /\ InitRenderer
    /\ doc \in Docs \cup {<<>>}
    /\ raised = FALSE

NextFeeds ==
    \/ doc = <<>> /\ NextDelta
    \/ doc # <<>> /\ NextText

SpecFeeds == InitFeeds /\ [][NextFeeds]_vars

----------------------------------------------------------------------------
(* The store driven by creations and updates that carry attributes *)

Member(key, value) == [k |-> key, v |-> value]

\* the members of props other than id, in the order of Object.entries
PropsLists ==
    {<<>>,
     <<Member("title", JStr("x"))>>,
     <<Member("className", JStr("x"))>>,
     <<Member("style", JObj(<<Member("color", JStr("red"))>>))>>,
     <<Member("style", JObj(<<Member("width", JStr("1"))>>))>>,
     <<Member("title", JStr("c")), Member("style", JObj(<<Member("color", JStr("blue"))>>))>>}

\* a call made with props, and its outcome
PropsCall(op, target, props, r) ==
    [op |-> op, target |-> target, props |-> props, ok |-> r.ok, out |-> r.out]

\* createElement('root', 'div', {id, ...})
DoCreateElementProps ==
    /\ Tick
    /\ \E id \in {"a", "b"}, rest \in PropsLists :
        LET props == JObj(<<Member("id", JStr(id))>> \o rest)
            r == CreateElementProps(elements, nodes, genCount, Root, "div", props)
        IN  /\ elements' = r.els
            /\ nodes' = r.dom
            /\ genCount' = r.gen
            /\ last' = PropsCall("createElement", None, props, r)

\* updateElement(elementId, props), props with or without a new id
DoUpdateElementProps ==
    /\ Tick
    /\ \E elementId \in {"a", "b"}, rest \in PropsLists, newId \in {None, "b"} :
        LET props == JObj((IF newId = None THEN <<>> ELSE <<Member("id", JStr(newId))>>)
                          \o rest)
            r == UpdateElementProps(elements, nodes, elementId, props)
        IN  /\ elements' = r.els
            /\ nodes' = r.dom
            /\ last' = PropsCall("updateElement", elementId, props, r)
            /\ UNCHANGED genCount

NextProps ==
    \/ DoCreateElementProps
    \/ DoUpdateElementProps

SpecProps == Init /\ [][NextProps]_vars

----------------------------------------------------------------------------
(* The IncrementalTextRenderer fed a text whose instructions it dispatches *)

\* {"name":"h","arguments":{"tagName":"div","props":{"id":"a"}}}
CreateA == CmdWith("h", PayloadA)

\* {"name":"setText","arguments":{"elementId":"a","text":"x"}}
SetTextA == CmdWith("setText", TargetAndText("a"))

\* the texts delivered to the IncrementalTextRenderer
RenderDocs ==
    {Block(JsTag, <<"[">> \o Cmd("nope") \o <<",">> \o CreateA \o <<"]">>),
     Block(JsTag, CreateA) \o Block(JsonTag, SetTextA),
     Fence \o JsTag \o <<NL>> \o CreateA}

\* what a call of the IncrementalTextRenderer leaves behind: r is the parser's
\* result and d the outcome of the loop over r.out
AfterRendererCall(r, d, op, n) ==
    /\ d.gen <= MaxGen
    /\ textBuffer' = r.buf
    /\ bufPos' = r.pos
    /\ currentCodeBlock' = r.block
    /\ currentLanguage' = r.lang
    /\ textOut' = r.out
    /\ textLog' = textLog \o r.out
    /\ textCalls' = Append(textCalls, [op |-> op, n |-> n])
    /\ raised' = (raised \/ r.threw)
    /\ fed' = fed + n
    /\ elements' = d.els
    /\ nodes' = d.dom
    /\ genCount' = d.gen
    /\ executedCommands' = d.executed
    /\ returned' = d.results
    /\ applied' = applied \o d.notified
    /\ UNCHANGED <<nOps, last, toolCallBuffer, completedToolCalls, executedToolCalls, emitted,
                   nCalls, lastChunk, lastCall, discarded, received, doc, dispatchVars>>

\* the loop over the parser's commands, on the store of this state
Dispatched(r, op) ==
    DispatchCommands([els |-> elements, dom |-> nodes, gen |-> genCount,
                      executed |-> executedCommands, results |-> <<>>, notified |-> <<>>],
                     IF r.threw THEN <<>> ELSE r.out, 1, op)

\* IncrementalTextRenderer.processTextChunk(the next n symbols of the text)
ProcessTextChunk ==
    /\ Len(textCalls) < MaxTextCalls
    /\ \E n \in 1..(Len(doc) - fed) :
           LET r == ParseTextChunk(textBuffer, bufPos, currentCodeBlock, currentLanguage,
                                   SubSeq(doc, fed + 1, fed + n),
                                   [i \in 1..n |-> fed + i], Len(textCalls) + 1)
           IN  AfterRendererCall(r, Dispatched(r, "processTextChunk"), "processTextChunk", n)

\* IncrementalTextRenderer.flush()
TextRendererFlush ==
    /\ Len(textCalls) < MaxTextCalls
    /\ LET r == TextParserFlush(textBuffer, bufPos, currentCodeBlock, currentLanguage,
                                Len(textCalls) + 1)
       IN  AfterRendererCall(r, Dispatched(r, "flush"), "flush", 0)

\* the parser and the record after IncrementalTextRenderer.reset()
ResetTextRenderer(op) ==
    /\ textBuffer' = <<>>
    /\ bufPos' = <<>>
    /\ currentCodeBlock' = NoBlock
    /\ currentLanguage' = NoLanguage
    /\ executedCommands' = <<>>
    /\ textOut' = <<>>
    /\ returned' = <<>>
    /\ textCalls' = Append(textCalls, [op |-> op, n |-> 0])
    /\ UNCHANGED <<genCount, nOps, last, toolCallBuffer, completedToolCalls, executedToolCalls,
                   emitted, nCalls, lastChunk, lastCall, discarded, received, raised,
                   doc, fed, textLog, dispatchVars>>

\* IncrementalTextRenderer.reset()
TextRendererReset ==
    /\ Len(textCalls) < MaxTextCalls
    /\ ResetTextRenderer("reset")
    /\ UNCHANGED <<elements, nodes, applied>>

\* IncrementalTextRenderer.clear()
TextRendererClear ==
    /\ Len(textCalls) < MaxTextCalls
    /\ elements' = ClearElements
    /\ nodes' = ClearDocument(elements, nodes)
    /\ applied' = <<>>
    /\ ResetTextRenderer("clear")

NextTextRenderer ==
    \/ ProcessTextChunk
    \/ TextRendererFlush
    \/ TextRendererReset
    \/ TextRendererClear

InitTextRenderer ==
    /\ InitDOMManager
    /\ InitIncrementalRenderer
    /\ InitIncrementalTextParser
    /\ InitRenderer
    /\ doc \in RenderDocs
    /\ raised = FALSE

SpecTextRenderer == InitTextRenderer /\ [][NextTextRenderer]_vars

----------------------------------------------------------------------------
(* The store invariants of the data model *)

\* the parentId chain that starts at node d passes through x
RECURSIVE ChainReaches(_, _, _, _)
ChainReaches(els, d, x, fuel) ==
    IF fuel = 0 \/ d \notin DOMAIN els THEN FALSE
    ELSE els[d].parentId = x \/ ChainReaches(els, els[d].parentId, x, fuel - 1)

\* the live nodes whose parentId chain reaches x
Descendants(els, x) ==
    {d \in DOMAIN els \ {x} : ChainReaches(els, d, x, Cardinality(DOMAIN els))}

\* I1: every parentId is root or names a live node
I1(els) == \A id \in DOMAIN els : els[id].parentId = Root \/ els[id].parentId \in DOMAIN els

\* I2: c is in the children of p exactly if c is live and its parentId is p
I2(els) ==
    \A p \in DOMAIN els, c \in AllIds :
        (c \in SeqToSet(els[p].children)) <=> (c \in DOMAIN els /\ els[c].parentId = p)

\* I4: no node is its own ancestor or its own child
I4(els) ==
    \A id \in DOMAIN els :
        /\ ~ChainReaches(els, id, id, Cardinality(DOMAIN els))
        /\ id \notin SeqToSet(els[id].children)

----------------------------------------------------------------------------
(* Properties of the two assemblers *)

\* the paths of parseChunk and flush that work on a slot key
SlotPaths == {"delta", "finish", "buffered", "flush"}

\* the emissions of slot i since the last reset
SlotEmissions(i) ==
    {k \in 1..Len(emitted) : emitted[k].index = i /\ emitted[k].via \in SlotPaths}

\* C1: without a reset in between, at most one instruction is emitted per slot
\* key; a slot that has been emitted is retired, and a retired slot has no
\* pending record, whatever fragments were delivered for it afterwards.
C1_AtMostOncePerSlot ==
    \A i \in Slots :
        /\ Cardinality(SlotEmissions(i)) <= 1
        /\ SlotEmissions(i) # {} => i \in completedToolCalls
        /\ i \in completedToolCalls => ~BufHas(toolCallBuffer, i)

\* slot 0 was emitted by an earlier call and the last call resent its whole payload
C1_Witness ==
    /\ \E k \in 1..Len(emitted) :
           emitted[k].index = 0 /\ emitted[k].via = "delta" /\ emitted[k].at[1] < nCalls
    /\ lastChunk.delta = <<Whole(0)>>
    /\ returned = <<>>
    /\ toolCallBuffer = <<>>

\* the names of a list of instructions
NamesOf(list) == [k \in 1..Len(list) |-> list[k].name]

\* the names of the instructions of a text of DocTable
ExpectedNames(text) == (CHOOSE d \in DocTable : d.text = text).names

\* every call so far was a parseTextChunk
OnlyParsed == \A k \in 1..Len(textCalls) : textCalls[k].op = "parseTextChunk"

\* the texts made of one closed block with an allowed tag and valid instruction JSON
SingleBlockDocs ==
    {Block(JsTag, Cmd("h")),
     Block(RenderTag, <<"[">> \o Cmd("h") \o <<",">> \o Cmd("setText") \o <<"]">>),
     Fence \o JsTag \o Cmd("h") \o Fence,
     Block(JavascriptTag, Cmd("h"))}

\* C2: a text made of one closed block, cut into two chunks: the first
\* parseTextChunk, which does not hold all of the closing fence, returns no
\* instruction; the second returns the block's instructions, once.
C2_SplitBlock ==
    (doc \in SingleBlockDocs /\ OnlyParsed) =>
        /\ (Len(textCalls) = 1 /\ fed < Len(doc)) => textOut = <<>>
        /\ (Len(textCalls) = 2 /\ fed = Len(doc)) =>
               /\ NamesOf(textOut) = ExpectedNames(doc)
               /\ textLog = textOut

\* the first chunk was the whole block but the last backtick of its closing fence
C2_Witness ==
    /\ doc = Block(JsTag, Cmd("h"))
    /\ textCalls = <<[op |-> "parseTextChunk", n |-> Len(doc) - 1],
                     [op |-> "parseTextChunk", n |-> 1]>>
    /\ NamesOf(textOut) = <<"h">>
    /\ textBuffer = <<>>

\* position s of the stream comes before position t
Before(s, t) == s[1] < t[1] \/ (s[1] = t[1] /\ s[2] < t[2])

\* the parent links and children sets of a store, whatever DOM nodes it holds
Links(els) ==
    [id \in DOMAIN els |-> [parentId |-> els[id].parentId, children |-> els[id].children]]

\* the store after the calls of the outcomes log, applied in order to the
\* store els rendered as dom
RECURSIVE Replay(_, _, _, _)
Replay(els, dom, log, k) ==
    IF k > Len(log) THEN els
    ELSE LET r == ExecuteToolCall(els, dom, genCount, log[k].toolCall.name,
                                  log[k].toolCall.arguments)
         IN  Replay(r.els, r.dom, log, k + 1)

\* C3: instructions are emitted in the order in which the fragments that
\* complete them arrive, they are dispatched in that same order, and the store
\* is the result of applying them in that order.
C3_CompletionOrder ==
    /\ \A k \in 1..(Len(emitted) - 1) : Before(emitted[k].at, emitted[k + 1].at)
    /\ \A k \in 1..(Len(applied) - 1) :
           Before(applied[k].toolCall.at, applied[k + 1].toolCall.at)
    /\ Len(emitted) <= Len(applied)
    /\ \A k \in 1..Len(emitted) :
           applied[Len(applied) - Len(emitted) + k].toolCall = emitted[k]
    /\ \A k \in 1..Len(returned) :
           applied[Len(applied) - Len(returned) + k] = returned[k]
    /\ Links(elements) = Links(Replay(<< >>, InitDocument, applied, 1))

\* slot 0 was opened before slot 1, slot 1 completed first and was applied first:
\* its node b found no node a and went under the root
C3_Witness ==
    /\ Len(applied) = 2
    /\ applied[1].toolCall.index = 1 /\ applied[2].toolCall.index = 0
    /\ applied[1].success /\ applied[2].success
    /\ Before(applied[2].toolCall.opened, applied[1].toolCall.opened)
    /\ emitted = <<applied[1].toolCall, applied[2].toolCall>>
    /\ DOMAIN elements = {"a", "b"}
    /\ elements["b"].parentId = Root

\* list s is the beginning of list t
IsPrefix(s, t) == Len(s) <= Len(t) /\ SubSeq(t, 1, Len(s)) = s

\* the instructions that parseTextChunk calls have returned
ParsedLog == SelectSeq(textLog, LAMBDA e : e.via = "parseTextChunk")

\* C4: over all parseTextChunk calls, instructions are returned in the
\* left-to-right order of their blocks in the text, and inside one block in
\* their order in the block; fed by parseTextChunk alone, a text yields a
\* beginning of the list of its instructions.
C4_TextOrder ==
    /\ \A k \in 1..(Len(ParsedLog) - 1) :
           Before(<<ParsedLog[k].block, ParsedLog[k].item>>,
                  <<ParsedLog[k + 1].block, ParsedLog[k + 1].item>>)
    /\ (doc # <<>> /\ OnlyParsed) => IsPrefix(NamesOf(textLog), ExpectedNames(doc))

\* two blocks returned by two different calls, and two instructions of one block
C4_Witness ==
    /\ Len(textLog) = 2
    /\ OnlyParsed
    /\ \/ textLog[1].block < textLog[2].block /\ textLog[1].call < textLog[2].call
       \/ textLog[1].block = textLog[2].block /\ textLog[1].item < textLog[2].item
                                               /\ Len(textCalls) = 3

\* C5: no call of parseChunk, parseTextChunk or of either flush lets an
\* exception escape, whatever the payload.
C5_NeverRaises == ~raised

\* a block with truncated JSON was closed and dropped, the next block was returned
C5_Witness ==
    /\ doc = Block(JsTag, Truncated(Cmd("h"))) \o Block(JsTag, Cmd("setText"))
    /\ fed = Len(doc)
    /\ OnlyParsed
    /\ NamesOf(textLog) = <<"setText">>
    /\ ~raised

----------------------------------------------------------------------------
(* Properties of the node store *)

\* C6: after any sequence of create operations the store satisfies I1 (every
\* parentId is root or a live id) and I2 (children sets and parentId links
\* agree).
C6_CreateKeepsI1I2 == I1(elements) /\ I2(elements)

\* C7: a create whose explicit id names a live node removes that node and
\* every node of its subtree, and the node then installed under the id has
\* an empty children set.
C7_ReuseDestroysThenCreates ==
    [][(/\ last'.op = "h"
        /\ nOps' = nOps + 1
        /\ last'.ok
        /\ last'.newId \in DOMAIN elements)
       => (/\ \A d \in Descendants(elements, last'.newId) : d \notin DOMAIN elements'
           /\ last'.newId \in DOMAIN elements'
           /\ elements'[last'.newId].children = << >>)]_vars

\* C8: in every reachable store state no node is its own parent or
\* transitive ancestor, and no node's children set contains the node.
C8_Acyclic == I4(elements)

\* C9: removeElement(x) on a live x leaves neither x nor any node whose
\* parentId chain reaches x live, takes x out of its parent's children, and
\* leaves every other node live with its parentId unchanged.
C9_CascadingDelete ==
    [][(/\ last'.op = "removeElement"
        /\ nOps' = nOps + 1
        /\ last'.target \in DOMAIN elements)
       => LET x == last'.target
              sub == Descendants(elements, x) \cup {x}
          IN  /\ \A d \in sub : d \notin DOMAIN elements'
              /\ \A p \in DOMAIN elements' : x \notin SeqToSet(elements'[p].children)
              /\ \A y \in DOMAIN elements \ sub :
                     /\ y \in DOMAIN elements'
                     /\ elements'[y].parentId = elements[y].parentId]_vars

\* C10: updateElement(id, {id: n}) with n different from id and not live,
\* applied to a store that satisfies I1, I2 and I4, re-keys the node under
\* n: id no longer resolves, n resolves to the node, the parent's children
\* hold n and not id, every child of the node has parentId n, and I1 and
\* I2 are kept.
C10_RenameFollowsReferences ==
    [][(/\ last'.op = "updateElement"
        /\ nOps' = nOps + 1
        /\ I1(elements) /\ I2(elements) /\ I4(elements)
        /\ last'.target \in DOMAIN elements
        /\ last'.newId \notin {None, last'.target}
        /\ last'.newId \notin DOMAIN elements
        /\ last'.text = NoText)
       => LET id == last'.target
              n == last'.newId
          IN  /\ id \notin DOMAIN elements'
              /\ n \in DOMAIN elements'
              /\ elements'[n].node = elements[id].node
              /\ nodes' = nodes
              /\ elements'[n].children = elements[id].children
              /\ \A p \in DOMAIN elements' :
                     /\ id \notin SeqToSet(elements'[p].children)
                     /\ (n \in SeqToSet(elements'[p].children)) <=> (elements'[n].parentId = p)
              /\ \A c \in DOMAIN elements :
                     elements[c].parentId = id /\ c # id => elements'[c].parentId = n
              /\ I1(elements') /\ I2(elements')]_vars

\* C11: updateElement(id, {id: n}) with n the id of another live node, applied
\* to a store that satisfies I1, I2 and I4 (id childless and outside the
\* subtree of n), first retires the node n and its whole subtree; afterwards
\* every live node whose parentId names a live node is in that node's
\* children set.
C11_RenameOntoLiveId ==
    [][(/\ last'.op = "updateElement"
        /\ nOps' = nOps + 1
        /\ I1(elements) /\ I2(elements) /\ I4(elements)
        /\ last'.target \in DOMAIN elements
        /\ last'.newId \in DOMAIN elements \ {last'.target}
        /\ elements[last'.target].children = << >>
        /\ last'.target \notin Descendants(elements, last'.newId))
       => (/\ \A d \in Descendants(elements, last'.newId) : d \notin DOMAIN elements'
           /\ nodes'[elements[last'.newId].node].parentNode = Detached
           /\ \A c \in DOMAIN elements' :
                  elements'[c].parentId \in DOMAIN elements'
                      => c \in SeqToSet(elements'[elements'[c].parentId].children))]_vars

----------------------------------------------------------------------------
(* Properties of the dispatcher *)

\* C12: executeToolCall never raises: an unknown name, arguments that are not
\* valid JSON, a target that is not live and a missing field are all returned
\* as a result, never thrown.
C12_ExecuteNeverRaises == outcome.op = "executeToolCall" => ~outcome.threw

\* the calls of the entries that report success, in list order
SuccessfulCalls(results) ==
    LET good == SelectSeq(results, LAMBDA e : e.success)
    IN  [i \in 1..Len(good) |-> good[i].toolCall]

\* C13: executeToolCalls returns a list as long as the one it was given, its
\* i-th entry is the outcome of the i-th call, a call that fails does not stop
\* the calls after it, and the store it leaves is the one that the successful
\* calls alone, made in list order, would have left.
C13_BatchIsolation ==
    [][(outcome'.op = "executeToolCalls" /\ nOps' > nOps)
       => (/\ ~outcome'.threw
           /\ Len(outcome'.results) = Len(called')
           /\ \A i \in 1..Len(called') : outcome'.results[i].toolCall = called'[i]
           /\ LET s == ExecuteToolCalls([els |-> elements, dom |-> nodes, gen |-> genCount,
                                         results |-> << >>],
                                        SuccessfulCalls(outcome'.results), 1)
              IN  /\ elements' = s.els
                  /\ nodes' = s.dom
                  /\ \A i \in 1..Len(s.results) : s.results[i].success)]_vars

----------------------------------------------------------------------------
(* Properties of the tools on ids that are not live, and of h's fallbacks *)

\* C14: updateElement, setText and appendText on an id that is not live fail
\* with the not-found Error and leave the store and the document as they were.
C14_NotLiveTargetFails ==
    [][(/\ last'.op \in {"updateElement", "setText", "appendText"}
        /\ nOps' = nOps + 1
        /\ last'.target \notin DOMAIN elements)
       => (/\ ~last'.ok
           /\ last'.out = "NotFound"
           /\ elements' = elements
           /\ nodes' = nodes
           /\ genCount' = genCount)]_vars

\* appendText on an id that is not live has failed beside a live node
C14_Witness ==
    /\ last.op = "appendText"
    /\ last.out = "NotFound"
    /\ last.target \notin DOMAIN elements
    /\ elements # << >>

\* the children sets of the nodes other than id that are live before and
\* after a step are the same
OtherChildrenKept(id) ==
    \A p \in (DOMAIN elements \cap DOMAIN elements') \ {id} :
        elements'[p].children = elements[p].children

\* a step of h, on a store that satisfies I1, I2 and I4, with a tag name the
\* document accepts and a parentId that is missing or not live
FallbackStep ==
    /\ last'.op = "h"
    /\ nOps' = nOps + 1
    /\ I1(elements) /\ I2(elements) /\ I4(elements)
    /\ last'.tagName \in TagNames
    /\ last'.parent = None \/ last'.parent \notin DOMAIN elements \cup {Root}

\* the node of the step is live under the root, in the store and in the document
UnderRoot ==
    /\ last'.ok
    /\ last'.out \in DOMAIN elements'
    /\ elements'[last'.out].parentId = Root
    /\ nodes'[elements'[last'.out].node].parentNode = RootNode

C16_DefaultTagName ==
    [][(/\ last'.op = "h"
        /\ nOps' = nOps + 1
        /\ last'.tagName \in {None, ""})
       => (/\ last'.ok
           /\ last'.out \in DOMAIN elements'
           /\ nodes'[elements'[last'.out].node].tagName = "div")]_vars

\* C17: removeElement on an id that is not live succeeds and changes nothing,
\* and removing a node twice leaves what removing it once leaves.
C17_RemoveIdempotent ==
    \A x \in AllIds :
        LET once == ToolRemoveElement(elements, nodes, x)
            twice == ToolRemoveElement(once.els, once.dom, x)
        IN  /\ x \notin DOMAIN elements
                => (once.ok /\ once.els = elements /\ once.dom = nodes)
            /\ twice.ok = once.ok /\ twice.els = once.els /\ twice.dom = once.dom

\* removeElement was called on an id that is not live, beside a live node,
\* and reported success
C17_Witness ==
    /\ last.op = "removeElement" /\ last.ok
    /\ last.target \notin DOMAIN elements
    /\ elements # << >>
    /\ nOps >= 2

----------------------------------------------------------------------------
(* Properties of the text of a node *)

\* the text a live node shows, and the text that is the node's own: what it
\* was created with or last given by setText, and what appendText added since
ShownText(els, dom, id) == TextContent(dom, els[id].node)
OwnText(els, dom, id) == dom[els[id].node].text

\* a step of the tool op on a live node of a store that satisfies I1, I2 and I4
TextStep(op) ==
    /\ last'.op = op
    /\ nOps' = nOps + 1
    /\ I1(elements) /\ I2(elements) /\ I4(elements)
    /\ last'.target \in DOMAIN elements

\* C18: the text of a live node is the text of the last setText on it (its
\* initial text if there was none) followed by the texts of the appendText
\* calls made on it since, in call order; appendText(a) then appendText(b)
\* leaves what appendText(a + b) leaves; setText(A) then appendText(B) leaves
\* the text AB.
C18_TextAlgebra ==
    [][/\ TextStep("setText")
           => ShownText(elements', nodes', last'.target) = TextArg(last'.text)
       /\ TextStep("appendText")
           => ShownText(elements', nodes', last'.target)
                  = OwnText(elements, nodes, last'.target) \o TextArg(last'.text)
       /\ \A id \in DOMAIN elements', a \in Texts, b \in Texts :
              LET one == ToolAppendText(elements', nodes', id, a)
                  two == ToolAppendText(one.els, one.dom, id, b)
                  both == ToolAppendText(elements', nodes', id, a \o b)
                  set == ToolSetText(elements', nodes', id, a)
                  then == ToolAppendText(set.els, set.dom, id, b)
              IN  /\ two.els = both.els /\ two.dom = both.dom
                  /\ ShownText(then.els, then.dom, id) = a \o b]_vars

\* C19: after setText on a live node the node shows the given text and has
\* no element children, in the document or in the store, and no live node
\* names it as parent; in a store that satisfies I1, I2 and I4 no node has
\* text of its own and element children.
C19_SetTextClearsChildren ==
    [][/\ TextStep("setText")
           => LET id == last'.target
              IN  /\ ShownText(elements', nodes', id) = TextArg(last'.text)
                  /\ nodes'[elements'[id].node].childNodes = << >>
                  /\ elements'[id].children = << >>
                  /\ \A c \in DOMAIN elements' : elements'[c].parentId # id
       /\ (nOps' = nOps + 1 /\ I1(elements') /\ I2(elements') /\ I4(elements'))
           => \A id \in DOMAIN elements' :
                  OwnText(elements', nodes', id) # << >>
                      => /\ elements'[id].children = << >>
                         /\ nodes'[elements'[id].node].childNodes = << >>]_vars

\* C20: appendText on a live node that has element children only extends the
\* node's own text: its children set, the liveness and the parent links of its
\* children, and their place under the node in the document stay as they were.
C20_AppendTextKeepsChildren ==
    [][(TextStep("appendText") /\ elements[last'.target].children # << >>)
       => LET id == last'.target
              n == elements[id].node
          IN  /\ elements' = elements
              /\ nodes'[n].childNodes = nodes[n].childNodes
              /\ \A k \in SeqToSet(nodes[n].childNodes) : nodes'[k] = nodes[k]
              /\ nodes'[n].text = nodes[n].text \o TextArg(last'.text)]_vars

----------------------------------------------------------------------------
(* Properties of flush and of what the assemblers hold back *)

\* the whole text was delivered by parseTextChunk calls and flush() was called next
FedThenFlushed ==
    /\ Len(textCalls) >= 2
    /\ fed = Len(doc)
    /\ textCalls[Len(textCalls)].op = "flush"
    /\ \A k \in 1..(Len(textCalls) - 1) : textCalls[k].op = "parseTextChunk"

\* a text that ends in an open js block holding one instruction
OpenValidDoc == <<"o", " ">> \o Fence \o JsTag \o <<NL>> \o Cmd("h")

\* a text that ends in an open js block holding the beginning of an instruction
OpenInvalidDoc == Fence \o JsTag \o <<NL>> \o Truncated(Cmd("h"))

\* C21: however the text was cut into chunks, flush() after a text that ends
\* in an open block with an allowed tag returns the instruction that follows
\* the opening fence when that content is valid JSON, and returns nothing and
\* does not throw when it is not.
C21_FlushOpenBlock ==
    FedThenFlushed =>
        /\ doc = OpenValidDoc => NamesOf(textOut) = <<"h">>
        /\ doc = OpenInvalidDoc => (textOut = <<>> /\ ~raised)

\* an instruction with a name and a payload that is one complete JSON value
IsComplete(toolCall) ==
    toolCall.name # None /\ toolCall.name # "" /\ JSONParse(toolCall.arguments).ok

C23_DiscardedStayRetired ==
    \A i \in discarded :
        /\ ~BufHas(toolCallBuffer, i)
        /\ SlotEmissions(i) = {}

\* the fragments received for slot i up to and including the one at place at
ReceivedFor(i, at) ==
    SelectSeq(received,
              LAMBDA e : e.fragment.index = i /\ (e.at = at \/ Before(e.at, at)))

\* the payload fragments of a list of received fragments, concatenated
RECURSIVE Concatenated(_, _)
Concatenated(list, k) ==
    IF k > Len(list) THEN <<>>
    ELSE list[k].fragment.arguments \o Concatenated(list, k + 1)

\* the last non-empty name among the first k fragments of a list
RECURSIVE LastName(_, _)
LastName(list, k) ==
    IF k = 0 THEN ""
    ELSE IF list[k].fragment.name \notin {None, ""} THEN list[k].fragment.name
    ELSE LastName(list, k - 1)

\* C24: an instruction that the assembler emits from the fragments of a slot
\* carries the last non-empty name received for the slot and, as arguments,
\* the payload fragments received for the slot up to and including the
\* completing one, concatenated in arrival order; no other slot contributes.
C24_Accumulation ==
    \A k \in 1..Len(emitted) :
        emitted[k].via = "delta" =>
            LET mine == ReceivedFor(emitted[k].index, emitted[k].at)
            IN  /\ emitted[k].name = LastName(mine, Len(mine))
                /\ emitted[k].arguments = Concatenated(mine, 1)

\* the same, for the slots that no flush() has dropped
C24_AccumulationWithoutFlush ==
    \A k \in 1..Len(emitted) :
        (emitted[k].via = "delta" /\ emitted[k].index \notin discarded) =>
            LET mine == ReceivedFor(emitted[k].index, emitted[k].at)
            IN  /\ emitted[k].name = LastName(mine, Len(mine))
                /\ emitted[k].arguments = Concatenated(mine, 1)

----------------------------------------------------------------------------
(* Properties of what the text assembler takes for an instruction *)

\* a block whose elements are an instruction with a number for arguments, a
\* well-formed instruction, and an instruction with the empty string for arguments
MixedArgumentsDoc ==
    Block(JsTag, <<"[">> \o CmdWith("h", <<"1">>) \o <<",">> \o Cmd("setText")
                 \o <<",">> \o CmdWith("h", <<Q("")>>) \o <<"]">>)

\* C25: an element of a block is returned as an instruction if and only if
\* its name is a non-empty string and its arguments field is an object or a
\* string; any other element is dropped and the rest of the block is kept.
C25_ElementValidity ==
    /\ \A k \in 1..Len(textLog) :
           /\ textLog[k].name # ""
           /\ textLog[k].arguments.t \in {"object", "string"}
    /\ (doc = MixedArgumentsDoc /\ OnlyParsed /\ fed = Len(doc)) =>
           /\ Len(textLog) = 2
           /\ textLog[1].item = 2 /\ textLog[1].arguments.t = "object"
           /\ textLog[2].item = 3 /\ textLog[2].arguments.t = "string"

\* the language tag that follows the fence at position p of the text
TagAt(p) == LanguageMatch(SubSeq(doc, p + 3, Len(doc))).language

\* a closed block with no tag, or with a tag that is not allowed, and a js block after it
SkippedBlockDocs ==
    {Block(<<>>, Cmd("h")) \o Block(JsTag, Cmd("setText")),
     Block(<<"j">>, Cmd("h")) \o Block(<<"J", "S">>, Cmd("setText"))}

\* C26: only a block whose language tag is render, json, javascript or js
\* yields instructions, when it closes or at flush(); a block with another
\* tag or with none yields nothing, and the blocks after it are still returned.
C26_TagAllowList ==
    /\ \A k \in 1..Len(textLog) : TagAt(textLog[k].block) \in AllowedLanguages
    /\ (doc \in SkippedBlockDocs /\ OnlyParsed /\ fed = Len(doc)) =>
           NamesOf(textLog) = <<"setText">>

----------------------------------------------------------------------------
(* Properties of the dispatcher's checks *)

\* the parsed arguments of a tool call (null where they do not parse)
ArgumentsOf(toolCall) == JSONParse(toolCall.arguments).v

\* the arguments of the tool call parse and lack a field that its operation requires
LacksRequiredField(toolCall) ==
    /\ JSONParse(toolCall.arguments).ok
    /\ \/ /\ toolCall.name \in {"updateElement", "setText", "appendText", "removeElement"}
          /\ ~HasKey(ArgumentsOf(toolCall), "elementId")
       \/ /\ toolCall.name \in {"setText", "appendText"}
          /\ ~HasKey(ArgumentsOf(toolCall), "text")
       \/ /\ toolCall.name = "updateElement"
          /\ ~HasKey(ArgumentsOf(toolCall), "props")

\* the Renderer was handed one tool call, alone or as a list of one, and
\* reported it as a failure, leaving the store and the document as they were
OneCallRejected ==
    /\ \/ outcome'.op = "executeToolCall" /\ outcome'.threw
       \/ outcome'.op = "executeToolCalls" /\ ~outcome'.results[1].success
    /\ elements' = elements
    /\ nodes' = nodes
    /\ genCount' = genCount

\* C27: a tool call that lacks a required field of its operation (elementId;
\* text for setText and appendText; props for updateElement) is reported as a
\* failure and leaves the store unchanged: no default value stands in for it.
C27_RequiredFields ==
    [][(nOps' > nOps /\ Len(called') = 1 /\ LacksRequiredField(called'[1]))
          => OneCallRejected]_vars

\* C28: a tool call whose name is missing or is not one of h, updateElement,
\* setText, appendText and removeElement is reported as a failure and leaves
\* the store unchanged.
C28_ClosedOperationSet ==
    [][(nOps' > nOps /\ Len(called') = 1 /\ called'[1].name \notin ToolNames)
          => OneCallRejected]_vars

----------------------------------------------------------------------------
(* Properties of the StreamProcessor *)

\* the store, the document and the results after the tool calls of a list
\* were applied one by one to the store of this state
OneByOne(toolCalls) ==
    ExecuteToolCalls([els |-> elements, dom |-> nodes, gen |-> genCount, results |-> <<>>],
                     toolCalls, 1)

\* this step took the queue called' and left what applying it one by one leaves
AppliedInQueueOrder ==
    /\ elements' = OneByOne(called').els
    /\ nodes' = OneByOne(called').dom
    /\ outcome'.results = OneByOne(called').results

\* a step of the StreamProcessor that ran flushPendingToolCalls
QueueFlushed ==
    \/ nOps' > nOps /\ outcome'.op \in {"processChunk", "renderStream"}
    \/ debounceTimer /\ ~debounceTimer' /\ outcome'.op = "flushPendingToolCalls"

\* C29: with a batch size of 1 or more, flushPendingToolCalls applies the
\* queue in queue order: the store and the sequence of results reported are
\* those of applying the queued tool calls one by one.
C29_BatchingKeepsOrder ==
    [][(QueueFlushed /\ options.batchSize >= 1) => AppliedInQueueOrder]_vars

\* a queue of three tool calls was flushed in batches of two: the node
\* created by the first batch was given its text by the second
C29_Witness ==
    /\ outcome.op = "flushPendingToolCalls"
    /\ options.batchSize = 2
    /\ Len(called) = 3
    /\ called[3].name = "setText"
    /\ Len(outcome.results) = 3
    /\ outcome.results[1].success /\ outcome.results[3].success
    /\ "a" \in DOMAIN elements
    /\ pendingToolCalls = <<>>

\* C30: renderStream on a Renderer created without options, given an array
\* of complete tool calls, has executed every tool call of the array once
\* and in array order when it returns.
C30_RenderStreamExecutesAll ==
    [][(nOps' > nOps /\ outcome'.op = "renderStream"
            /\ options = StreamProcessorOptions(RendererOptions(NoOptions)))
          => AppliedInQueueOrder]_vars


----------------------------------------------------------------------------
(* Properties of the drivers' reports *)

\* a step that is a processChunk or a flush of the IncrementalRenderer
DeltaDriverStep == nCalls' > nCalls /\ lastCall' \in {"processChunk", "flush"}

\* the step returns one outcome for each instruction the parser emitted in it,
\* in emission order, and has notified exactly those outcomes
DeltaDriverReports ==
    LET out == SubSeq(emitted', Len(emitted) + 1, Len(emitted'))
    IN  /\ Len(returned') = Len(out)
        /\ \A k \in 1..Len(out) : returned'[k].toolCall = out[k]
        /\ applied' = applied \o returned'

\* a step that is a processTextChunk or a flush of the IncrementalTextRenderer
TextDriverStep ==
    /\ Len(textCalls') > Len(textCalls)
    /\ textCalls'[Len(textCalls')].op \in {"processTextChunk", "flush"}

\* the same for the text driver, whose parser returned textOut
TextDriverReports ==
    /\ Len(returned') = Len(textOut')
    /\ \A k \in 1..Len(textOut') : returned'[k].command = textOut'[k]
    /\ applied' = applied \o returned'

\* C31: every call of a driver that hands instructions to the dispatcher
\* (processChunk and flush of the IncrementalRenderer, processTextChunk and
\* flush of the IncrementalTextRenderer) returns exactly one outcome for each
\* instruction its assembler emitted in that call, in emission order, and has
\* notified exactly those outcomes, failures included.
C31_OneOutcomePerInstruction ==
    [][/\ DeltaDriverStep => DeltaDriverReports
       /\ TextDriverStep => TextDriverReports]_vars

----------------------------------------------------------------------------
(* Properties of the attributes *)

\* the attributes a call can supply
AttrKeys == {"title", "className", "style"}

\* the value the node holds under the key is the supplied one and nothing else
HoldsSupplied(node, key, value) ==
    IF key = "style"
    THEN /\ DOMAIN node.style = {value.m[i].k : i \in 1..Len(value.m)}
         /\ \A i \in 1..Len(value.m) : node.style[value.m[i].k] = AttrString(value.m[i].v)
    ELSE key \in DOMAIN node.attributes /\ node.attributes[key] = AttrString(value)

\* the node holds under the key what it held before
KeepsValue(before, after, key) ==
    IF key = "style" THEN after.style = before.style
    ELSE /\ key \in DOMAIN after.attributes <=> key \in DOMAIN before.attributes
         /\ key \in DOMAIN before.attributes => after.attributes[key] = before.attributes[key]

\* a step that is a successful updateElement(elementId, props)
UpdatedWithProps == nOps' > nOps /\ last'.op = "updateElement" /\ last'.ok

\* C32: after updateElement(id, props) on a live node, every attribute named
\* in props has exactly the supplied value, a supplied style object taking the
\* place of the previous style as a whole, and every attribute not named in
\* props has the value it had before.
C32_ShallowMerge ==
    [][UpdatedWithProps =>
          LET n == elements[last'.target].node
          IN  \A key \in AttrKeys :
                  IF HasKey(last'.props, key)
                  THEN HoldsSupplied(nodes'[n], key, GetKey(last'.props, key))
                  ELSE KeepsValue(nodes[n], nodes'[n], key)]_vars

----------------------------------------------------------------------------
(* Properties of clear and of getTree *)

\* what the document shows under node n: tag names, texts and element
\* children in order, whatever the nodes are called
RECURSIVE Rendered(_, _)
Rendered(dom, n) ==
    [tagName |-> dom[n].tagName, text |-> dom[n].text,
     childNodes |-> [i \in 1..Len(dom[n].childNodes) |-> Rendered(dom, dom[n].childNodes[i])]]

\* h(parentId, 'div', {id, textContent}) does to the store els shown as dom
\* what it does to a newly constructed store, up to the names of the nodes
CreatesAsOnNewStore(els, dom) ==
    \A parentId \in {None, Root} \cup Ids, propsId \in Ids, propsText \in {NoText, <<"x">>} :
        LET here == ToolH(els, dom, genCount, parentId, "div", propsId, propsText)
            new == ToolH(<< >>, InitDocument, genCount, parentId, "div", propsId, propsText)
        IN  /\ here.ok = new.ok
            /\ here.out = new.out
            /\ Links(here.els) = Links(new.els)
            /\ Rendered(here.dom, RootNode) = Rendered(new.dom, RootNode)

\* updateElement, setText and appendText on id throw the not-found Error
FailsNotFound(els, dom, id) ==
    /\ ToolUpdateElement(els, dom, id, None, <<"x">>).out = "NotFound"
    /\ ToolSetText(els, dom, id, <<"x">>).out = "NotFound"
    /\ ToolAppendText(els, dom, id, <<"x">>).out = "NotFound"

\* C33: right after clear() no id is live, updateElement, setText and
\* appendText on any id fail with the not-found Error, the root element shows
\* nothing, and a following create does what it does on a newly constructed
\* store.
C33_ClearEmptiesStore ==
    last.op = "clear" =>
        /\ DOMAIN elements = {}
        /\ \A id \in AllIds : FailsNotFound(elements, nodes, id)
        /\ nodes[RootNode].childNodes = << >>
        /\ CreatesAsOnNewStore(elements, nodes)

\* what getTree must return for the store els shown as dom: an entry for
\* exactly the live ids, each with the node's tag name in lower case, its
\* parentId and the ids of its children in insertion order
IsSnapshotOf(tree, els, dom) ==
    /\ DOMAIN tree = DOMAIN els
    /\ \A id \in DOMAIN els :
        /\ tree[id].tagName = TagToLowerCase(dom[els[id].node].tagName)
        /\ tree[id].parentId = els[id].parentId
        /\ tree[id].children.items = els[id].children

\* C34: getTree() leaves the id map, the document and the id counter as they
\* were and returns, for exactly the live ids, the tag name, the parentId and
\* the children in insertion order; pushing an id on a children list of the
\* returned snapshot leaves the store as it is.
C34_GetTreeReadOnly ==
    [][(nOps' = nOps + 1 /\ last'.op = "getTree") =>
          /\ elements' = elements
          /\ nodes' = nodes
          /\ genCount' = genCount
          /\ IsSnapshotOf(outcome'.result, elements, nodes)
          /\ \A id \in DOMAIN elements, childId \in AllIds :
                PushOnSnapshot(elements', outcome'.result, id, childId) = elements]_vars

\* getTree has returned a snapshot in which 'b', created with the tag name
\* DIV, has the children c, a in the order of their creation
C34_Witness ==
    /\ last.op = "getTree"
    /\ outcome.op = "getTree"
    /\ "b" \in DOMAIN outcome.result
    /\ outcome.result["b"].children.items = <<"c", "a">>
    /\ outcome.result["b"].tagName = "div"
    /\ nodes[elements["b"].node].tagName = "DIV"

----------------------------------------------------------------------------
(* Properties of reset and flush of the assemblers *)

\* the last call on the IncrementalTextParser was op
LastTextCall(op) == textCalls # <<>> /\ textCalls[Len(textCalls)].op = op

\* the structured-delta assembler answers every chunk and a flush as a newly
\* constructed one does
DeltaAsConstructed ==
    /\ toolCallBuffer = <<>>
    /\ completedToolCalls = {}
    /\ \A chunk \in Chunks :
          ParseChunk(toolCallBuffer, completedToolCalls, chunk, 1) = ParseChunk(<<>>, {}, chunk, 1)
    /\ ParserFlush(toolCallBuffer, completedToolCalls, 1) = ParserFlush(<<>>, {}, 1)

\* the text assembler answers every chunk of the text still to come and a
\* flush as a newly constructed one does
TextAsConstructed ==
    /\ textBuffer = <<>>
    /\ currentCodeBlock = NoBlock
    /\ currentLanguage = NoLanguage
    /\ \A n \in 1..(Len(doc) - fed) :
          LET textChunk == SubSeq(doc, fed + 1, fed + n)
              positions == [i \in 1..n |-> fed + i]
          IN  ParseTextChunk(textBuffer, bufPos, currentCodeBlock, currentLanguage,
                             textChunk, positions, 1).out
                  = ParseTextChunk(<<>>, <<>>, NoBlock, NoLanguage, textChunk, positions, 1).out
    /\ TextParserFlush(textBuffer, bufPos, currentCodeBlock, currentLanguage, 1).out = <<>>

\* C35: after reset() an assembler holds what a newly constructed one holds
\* (no pending record, no retired slot; no buffered text, no open block, no
\* language) and answers every following input as a new one does; after
\* flush() no pending record, no buffered text and no open block are left,
\* and a second flush() returns nothing.
C35_ResetAndFlushClean ==
    /\ lastCall \in {"reset", "clear"} => DeltaAsConstructed
    /\ lastCall = "flush" =>
          /\ toolCallBuffer = <<>>
          /\ ParserFlush(toolCallBuffer, completedToolCalls, nCalls + 1).out = <<>>
    /\ LastTextCall("reset") => TextAsConstructed
    /\ LastTextCall("flush") =>
          /\ textBuffer = <<>>
          /\ currentCodeBlock = NoBlock
          /\ currentLanguage = NoLanguage
          /\ TextParserFlush(textBuffer, bufPos, currentCodeBlock, currentLanguage,
                             Len(textCalls) + 1).out = <<>>

\* a flush of the structured-delta assembler has dropped a pending record
\* while another slot stays retired
C35_Witness ==
    /\ lastCall = "flush"
    /\ discarded # {}
    /\ completedToolCalls # {}
    /\ toolCallBuffer = <<>>

----------------------------------------------------------------------------
(* Properties of the text feed under different chunkings *)

\* the instructions of a returned list without the number of the call that
\* returned them
Commands(out) ==
    [k \in 1..Len(out) |->
        [name |-> out[k].name, arguments |-> out[k].arguments,
         item |-> out[k].item, block |-> out[k].block]]

\* parseTextChunk on a newly constructed parser, given in one call what has
\* been fed so far
InOneCall ==
    ParseTextChunk(<<>>, <<>>, NoBlock, NoLanguage, SubSeq(doc, 1, fed),
                   [i \in 1..fed |-> i], 1)

\* C36: however the text delivered so far was cut into chunks, the lists
\* returned by the successive parseTextChunk calls, concatenated, and the
\* text buffer left after the last call are those of one parseTextChunk call
\* on the whole text.
C36_ChunkingIndependence ==
    (textCalls # <<>> /\ OnlyParsed) =>
        /\ Commands(textLog) = Commands(InOneCall.out)
        /\ textBuffer = InOneCall.buf

\* a text holding two blocks was delivered in three chunks, the first of
\* which ended inside the first block, and two instructions were returned
C36_Witness ==
    /\ Len(textCalls) = 3
    /\ OnlyParsed
    /\ fed = Len(doc)
    /\ Len(textLog) = 2
    /\ textLog[1].call = 2
    /\ textLog[2].call = 3

\* a flush has followed one or more parseTextChunk calls and nothing else
ParsedThenFlushed ==
    /\ Len(textCalls) >= 2
    /\ textCalls[Len(textCalls)].op = "flush"
    /\ \A k \in 1..(Len(textCalls) - 1) : textCalls[k].op = "parseTextChunk"

\* flush() of a parser that was given in one call what has been fed so far
FlushAfterOneCall ==
    TextParserFlush(InOneCall.buf, InOneCall.pos, InOneCall.block, InOneCall.lang, 2)

\* C37: the instructions flush() returns after a series of parseTextChunk
\* calls are those it returns after one parseTextChunk call on the
\* concatenated text, wherever the text was cut: whether the opening fence
\* and its language tag came in one call or in two, and whether or not the
\* newline after the tag was there when the block was first seen.
C37_FlushChunkingIndependence ==
    ParsedThenFlushed => Commands(textOut) = Commands(FlushAfterOneCall.out)

----------------------------------------------------------------------------
(* Properties of the pending records of the structured-delta assembler *)

\* the test of parseChunk and of flush on a pending record: it has a name
\* and a payload that is not blank and parses
PendingIsComplete(toolCall) ==
    /\ toolCall.name # ""
    /\ toolCall.arguments # <<>>
    /\ Trim(toolCall.arguments) # <<>>
    /\ Parses(toolCall.arguments)

\* C38: after every call on the structured-delta assembler no slot is both
\* pending and retired and no pending record passes the completeness test
\* (its name is empty, or its payload is empty, blank or not JSON); a flush()
\* at that point returns no instruction, and no flush has returned one.
C38_PendingIncomplete ==
    /\ \A i \in 1..Len(toolCallBuffer) :
          /\ toolCallBuffer[i].index \notin completedToolCalls
          /\ ~PendingIsComplete(toolCallBuffer[i])
    /\ ParserFlush(toolCallBuffer, completedToolCalls, nCalls + 1).out = <<>>
    /\ lastCall = "flush" => returned = <<>>
    /\ \A k \in 1..Len(emitted) : emitted[k].via # "flush"

\* after a processChunk one slot is retired and the record of another is
\* pending with a name and a payload that does not parse yet
C38_Witness ==
    /\ lastCall = "processChunk"
    /\ completedToolCalls # {}
    /\ \E i \in 1..Len(toolCallBuffer) :
          /\ toolCallBuffer[i].name # ""
          /\ toolCallBuffer[i].arguments # <<>>

----------------------------------------------------------------------------
(* Properties of the debounced StreamProcessor *)

\* C39: with a debounce delay, however chunk arrivals, firings of the timer
\* and the flush that ends processStream interleave, the tool calls handed to
\* executeToolCalls followed by those still on the queue are the tool calls
\* processChunk has queued since the last reset, each once and in arrival
\* order; once the stream has ended none is left on the queue.
C39_DebouncedExactlyOnce ==
    /\ handedOver \o pendingToolCalls = queued
    /\ outcome.op = "processStream" => handedOver = queued

----------------------------------------------------------------------------
(* Properties of the recursion of removeElement *)

\* C40: in every state of the store, removeElement(id) on any id returns: its
\* recursion over the children sets comes to an end before the call stack is
\* used up, and no removeElement or createElement has ended in a RangeError.
C40_RemoveTerminates ==
    /\ \A id \in AllIds : ~RemoveElement(elements, nodes, id).overflow
    /\ last.out # "RangeError"
====
